---- MODULE Spec2Model ----
(***************************************************************************)
(* Patent-relevance evaluation pipeline (agentic-eval).                    *)
(*                                                                         *)
(* Fractional quantities are held exactly, as integer hundredths:          *)
(*   raw score 2.5 = 250, confidence 0.3 = 30, normalized 50.0 = 5000,     *)
(*   weight 0.20 = 20, relevance score 100.0 = 10000.                      *)
(* A response of the text-generation service is held as the document       *)
(* json.loads makes of it (or as the reason no document is made).          *)
(***************************************************************************)
EXTENDS Integers, Sequences, FiniteSets, TLC

VARIABLES
    pc,          \* evaluate(): the statement the orchestrator is at
    hooksOn,     \* PatentRelevancePipeline.hooks is not None
    triaged,     \* the TriagedInvention, once triage returned
    ready,       \* the event loop's FIFO of ready handles
    tasks,       \* agent name -> its task: its state, the response its call got, its result
    outer,       \* the future asyncio.gather returned
    signals,     \* the six DimensionScores evaluate unpacked from gather
    batch,       \* validate_multiple_scores' (is_valid, issues)
    scored,      \* calculate_prs' (prs, raw_scores, normalized_scores, evidence_map)
    reviewed,    \* review's (confidence, flags)
    swot,        \* generate_swot's SWOT
    output,      \* the PatentRelevanceOutput evaluate returned
    raised,      \* the exception evaluate raised to its caller
    hooks,       \* PipelineHooks: metrics, all_flags, total_tokens, total_cost
    log,         \* history: the stages entered and the external calls made, in order
    h            \* a direct call of one pure function: its arguments and its return

vars == <<pc, hooksOn, triaged, ready, tasks, outer, signals, batch, scored,
          reviewed, swot, output, raised, hooks, log, h>>

pipeVars == <<pc, hooksOn, triaged, ready, tasks, outer, signals, batch, scored,
              reviewed, swot, output, raised, hooks, log>>

None == [t |-> "none"]

(***************************************************************************)
(* JSON values as json.loads returns them.                                 *)
(***************************************************************************)
JMissing == [t |-> "missing"]
JNull == [t |-> "null"]
JNum(n) == [t |-> "num", n |-> n]
JStr(s) == [t |-> "str", s |-> s]
JList(l) == [t |-> "list", l |-> l]

\* dict.get(key, default): the default only when the key is absent
Get(v, default) == IF v.t = "missing" THEN default ELSE v

(***************************************************************************)
(* str.strip() and len()                                                   *)
(***************************************************************************)
RECURSIVE LStrip(_)
LStrip(s) ==
    IF Len(s) > 0 /\ SubSeq(s, 1, 1) = " " THEN LStrip(SubSeq(s, 2, Len(s))) ELSE s

RECURSIVE RStrip(_)
RStrip(s) ==
    IF Len(s) > 0 /\ SubSeq(s, Len(s), Len(s)) = " "
    THEN RStrip(SubSeq(s, 1, Len(s) - 1))
    ELSE s

Strip(s) == RStrip(LStrip(s))

(***************************************************************************)
(* float(x) on a JSON value: a number converts, a numeric text parses, any *)
(* other text is a ValueError, null and lists are a TypeError.             *)
(***************************************************************************)
NumericText == {"3.5", "0.1", "7"}

TextValue(s) == CASE s = "3.5" -> 350 [] s = "0.1" -> 10 [] s = "7" -> 700

Float(v) ==
    CASE v.t = "num" -> [ok |-> TRUE, v |-> v.n]
      [] v.t = "str" /\ Strip(v.s) \in NumericText ->
            [ok |-> TRUE, v |-> TextValue(Strip(v.s))]
      [] v.t = "str" -> [ok |-> FALSE, exc |-> "ValueError"]
      [] OTHER -> [ok |-> FALSE, exc |-> "TypeError"]

Raise(e) == [ok |-> FALSE, exc |-> e]
Return(x) == [ok |-> TRUE, v |-> x]

(***************************************************************************)
(* models.py                                                               *)
(***************************************************************************)
Dims == {"tech_momentum", "market_gravity", "white_space",
         "strategic_leverage", "timing", "regulatory_alignment"}

SCORING_WEIGHTS ==
    [tech_momentum |-> 20, market_gravity |-> 25, white_space |-> 20,
     strategic_leverage |-> 15, timing |-> 10, regulatory_alignment |-> 10]

\* DimensionScore.validate_sources, with the List[str] and min_length=1 of the field
SourcesValid(src) ==
    /\ src.t = "list"
    /\ Len(src.l) >= 1
    /\ \A i \in 1..Len(src.l) : src.l[i].t = "str" /\ Len(Strip(src.l[i].s)) > 0

\* DimensionScore.validate_notes, with the str and min_length=5 of the field
NotesValid(notes) ==
    /\ notes.t = "str"
    /\ Len(notes.s) >= 5
    /\ Len(Strip(notes.s)) >= 5

\* DimensionScore(...): the validated record, or pydantic's ValidationError
DimensionScore(raw, norm, src, agent, notes, conf) ==
    IF /\ raw >= 0 /\ raw <= 500
       /\ norm >= 0 /\ norm <= 10000
       /\ SourcesValid(src)
       /\ NotesValid(notes)
       /\ conf >= 0 /\ conf <= 100
    THEN Return([raw_score |-> raw, normalized_score |-> norm,
                 sources |-> [i \in 1..Len(src.l) |-> src.l[i].s],
                 agent |-> agent, notes |-> notes.s, confidence |-> conf])
    ELSE Raise("PydanticValidationError")

\* (value / 5) * 100
Normalize(raw) == (raw * 100) \div 5

(***************************************************************************)
(* validation.py: OutputValidator.validate_dimension_score                 *)
(***************************************************************************)
\* not (0 <= score <= 5)
ScoreOutOfRange(score) == ~(0 <= score /\ score <= 500)

IsNonBlankStr(e) == e.t = "str" /\ Len(Strip(e.s)) > 0

\* variant: the entries kept as given, nothing dropped
CleanSourcesKeepAll(l) == l

\* [s.strip() for s in sources if isinstance(s, str) and s.strip()]
CleanSources(l) ==
    LET kept == SelectSeq(l, IsNonBlankStr)
    IN  [i \in 1..Len(kept) |-> JStr(Strip(kept[i].s))]

\* not isinstance(notes, str) or len(notes.strip()) < 5
NotesTooBrief(notes) == notes.t # "str" \/ Len(Strip(notes.s)) < 5

\* variant: confidence <= min_confidence
ConfidenceTooLowInclusive(conf, minConf) == conf <= minConf

\* confidence < min_confidence
ConfidenceTooLow(conf, minConf) == conf < minConf

\* data.get("aggregate_score", 0)
ScoreField(resp) == Get(resp.aggregate_score, JNum(0))

ValidateFields(resp, agent, minConf) ==
    LET score == Float(ScoreField(resp))
        sources == Get(resp.sources, JList(<<>>))
        notes == Get(resp.notes, JStr(""))
        conf == Float(Get(resp.confidence, JNum(50)))
    IN  IF ~score.ok \/ ScoreOutOfRange(score.v) THEN Raise("ValidationError")
        ELSE IF sources.t # "list" \/ Len(sources.l) = 0 THEN Raise("ValidationError")
        ELSE IF Len(CleanSources(sources.l)) = 0 THEN Raise("ValidationError")
        ELSE IF NotesTooBrief(notes) THEN Raise("ValidationError")
        ELSE IF ~conf.ok THEN Raise(conf.exc)
        ELSE IF ConfidenceTooLow(conf.v, minConf) THEN Raise("ValidationError")
        ELSE LET ds == DimensionScore(score.v, Normalize(score.v),
                                      JList(CleanSources(sources.l)), agent,
                                      JStr(Strip(notes.s)), conf.v)
             IN  IF ds.ok THEN ds ELSE Raise("ValidationError")

ValidateDimensionScore(resp, agent, minConf) ==
    CASE resp.kind = "bad_json" -> Raise("ValidationError")
      [] resp.kind = "non_object" -> Raise("AttributeError")
      [] OTHER -> ValidateFields(resp, agent, minConf)

(***************************************************************************)
(* validation.py: OutputValidator.validate_multiple_scores                 *)
(***************************************************************************)
RECURSIVE SumConfidence(_)
SumConfidence(scores) ==
    IF scores = <<>> THEN 0
    ELSE Head(scores).confidence + SumConfidence(Tail(scores))

\* avg_confidence = sum(...) / len(scores) if scores else 0;  avg_confidence < 0.3
AvgConfidenceLow(scores) ==
    IF Len(scores) = 0 THEN 0 < 30
    ELSE SumConfidence(scores) < 30 * Len(scores)

\* variant: score.normalized_score >= 95
OverConfidentInclusive(score) == score.normalized_score >= 9500 /\ score.confidence < 60

\* score.normalized_score > 95 and score.confidence < 0.6
OverConfident(score) == score.normalized_score > 9500 /\ score.confidence < 60

RECURSIVE OverConfidentIssues(_)
OverConfidentIssues(scores) ==
    IF scores = <<>> THEN <<>>
    ELSE (IF OverConfident(Head(scores))
          THEN <<[issue |-> "high_score_low_confidence", agent |-> Head(scores).agent]>>
          ELSE <<>>) \o OverConfidentIssues(Tail(scores))

ValidateMultipleScores(scores, required) ==
    LET issues ==
            (IF Len(scores) < required
             THEN <<[issue |-> "too_few_dimensions", agent |-> ""]>> ELSE <<>>)
            \o (IF AvgConfidenceLow(scores)
                THEN <<[issue |-> "average_confidence", agent |-> ""]>> ELSE <<>>)
            \o OverConfidentIssues(scores)
    IN  [is_valid |-> Len(issues) = 0, issues |-> issues]

(***************************************************************************)
(* scoring_agent.py: ScoringAgent.calculate_prs                            *)
(***************************************************************************)
RECURSIVE SumOver(_, _)
SumOver(S, f) ==
    IF S = {} THEN 0
    ELSE LET d == CHOOSE x \in S : TRUE IN f[d] + SumOver(S \ {d}, f)

\* variant: the plain mean of the normalized scores, the weights unused
WeightedSumUnweighted(normalized, weights) ==
    SumOver(DOMAIN weights, normalized) \div Cardinality(DOMAIN weights)

\* sum(normalized_scores[dimension] * weight for dimension, weight in weights.items())
WeightedSum(normalized, weights) ==
    SumOver(DOMAIN weights, [d \in DOMAIN weights |-> normalized[d] * weights[d]]) \div 100

Evidence(ds) == [sources |-> ds.sources, agent |-> ds.agent, notes |-> ds.notes]

CalculatePRSWith(weights, tech_momentum, market_gravity, white_space, strategic_leverage, timing, regulatory_alignment) ==
    LET raw_scores ==
            [tech_momentum |-> tech_momentum.raw_score,
             market_gravity |-> market_gravity.raw_score,
             white_space |-> white_space.raw_score,
             strategic_leverage |-> strategic_leverage.raw_score,
             timing |-> timing.raw_score,
             regulatory_alignment |-> regulatory_alignment.raw_score]
        normalized_scores == [d \in DOMAIN raw_scores |-> Normalize(raw_scores[d])]
    IN  [prs |-> WeightedSum(normalized_scores, weights),
         raw_scores |-> raw_scores,
         normalized_scores |-> normalized_scores,
         evidence_map |->
            [tech_momentum |-> Evidence(tech_momentum),
             market_gravity |-> Evidence(market_gravity),
             white_space |-> Evidence(white_space),
             strategic_leverage |-> Evidence(strategic_leverage),
             timing |-> Evidence(timing),
             regulatory_alignment |-> Evidence(regulatory_alignment)]]

\* calculate_prs on an agent whose self.weights is SCORING_WEIGHTS as imported
CalculatePRS(tech_momentum, market_gravity, white_space, strategic_leverage, timing, regulatory_alignment) ==
    CalculatePRSWith(SCORING_WEIGHTS, tech_momentum, market_gravity, white_space,
                     strategic_leverage, timing, regulatory_alignment)

(***************************************************************************)
(* Responses of the text-generation service                                *)
(***************************************************************************)
ApiError == [kind |-> "api_error"]      \* the call itself raises
BadJson == [kind |-> "bad_json"]        \* json.loads raises JSONDecodeError
NonObject == [kind |-> "non_object"]    \* valid JSON that is not an object
Doc(score, sources, notes, conf) ==
    [kind |-> "object", aggregate_score |-> score, sources |-> sources,
     notes |-> notes, confidence |-> conf]

(***************************************************************************)
(* signal_agents.py                                                        *)
(***************************************************************************)
AgentOrder == <<"TechnologySignalAgent", "MarketSignalAgent", "ProductLandscapeAgent",
                "RegulatorySignalAgent", "StrategicLeverageAgent", "TimingAgent">>

Agents == {AgentOrder[i] : i \in 1..Len(AgentOrder)}

Guardrailed == {"TechnologySignalAgent", "MarketSignalAgent"}

\* variant: normalized_score given the raw value 2.5
FallbackUnnormalized(agent) ==
    DimensionScore(250, 250, JList(<<JStr("fallback_default")>>), agent,
                   JStr("Validation error occurred; using default score"), 30)

\* variant: the default score carries confidence 0.0
FallbackNoConfidence(agent) ==
    DimensionScore(250, 5000, JList(<<JStr("fallback_default")>>), agent,
                   JStr("Validation error occurred; using default score"), 0)

\* the except ValidationError branch of the two guardrailed agents
Fallback(agent) ==
    DimensionScore(250, 5000, JList(<<JStr("fallback_default")>>), agent,
                   JStr("Validation error occurred; using default score"), 30)

\* variant: no except branch, the validator's exception leaves compute_signal
GuardedComputeSignalNoCatch(agent, resp) ==
    IF resp.kind = "api_error" THEN Raise("APIError")
    ELSE ValidateDimensionScore(resp, agent, 30)

\* variant: except Exception, every failure is replaced by the default score
GuardedComputeSignalCatchAll(agent, resp) ==
    IF resp.kind = "api_error" THEN Fallback(agent)
    ELSE LET v == ValidateDimensionScore(resp, agent, 30)
         IN  IF ~v.ok THEN Fallback(agent) ELSE v

\* TechnologySignalAgent.compute_signal, MarketSignalAgent.compute_signal
GuardedComputeSignal(agent, resp) ==
    IF resp.kind = "api_error" THEN Raise("APIError")
    ELSE LET v == ValidateDimensionScore(resp, agent, 30)
         IN  IF ~v.ok /\ v.exc = "ValidationError" THEN Fallback(agent) ELSE v

DefaultSources(agent) ==
    IF agent = "StrategicLeverageAgent" THEN JList(<<JStr("architectural reasoning")>>)
    ELSE JList(<<JStr("LLM analysis")>>)

\* variant: the four agents too substitute the default score for any failure
DirectComputeSignalWithFallback(agent, resp) ==
    IF resp.kind # "object" THEN Fallback(agent)
    ELSE LET raw == Float(Get(resp.aggregate_score, JNum(250)))
             ds == IF raw.ok
                   THEN DimensionScore(raw.v, Normalize(raw.v),
                                       Get(resp.sources, DefaultSources(agent)), agent,
                                       Get(resp.notes, JStr("")), 50)
                   ELSE Raise(raw.exc)
         IN  IF ds.ok THEN ds ELSE Fallback(agent)

\* variant: the four agents pass the response's own confidence to the score
DirectComputeSignalOwnConfidence(agent, resp) ==
    CASE resp.kind = "api_error" -> Raise("APIError")
      [] resp.kind = "bad_json" -> Raise("JSONDecodeError")
      [] resp.kind = "non_object" -> Raise("AttributeError")
      [] OTHER ->
            LET raw == Float(Get(resp.aggregate_score, JNum(250)))
                conf == Float(Get(resp.confidence, JNum(50)))
            IN  IF ~raw.ok THEN Raise(raw.exc)
                ELSE IF ~conf.ok THEN Raise(conf.exc)
                ELSE DimensionScore(raw.v, Normalize(raw.v),
                                    Get(resp.sources, DefaultSources(agent)), agent,
                                    Get(resp.notes, JStr("")), conf.v)

\* ProductLandscapeAgent, RegulatorySignalAgent, StrategicLeverageAgent, TimingAgent
DirectComputeSignal(agent, resp) ==
    CASE resp.kind = "api_error" -> Raise("APIError")
      [] resp.kind = "bad_json" -> Raise("JSONDecodeError")
      [] resp.kind = "non_object" -> Raise("AttributeError")
      [] OTHER ->
            LET raw == Float(Get(resp.aggregate_score, JNum(250)))
            IN  IF ~raw.ok THEN Raise(raw.exc)
                ELSE DimensionScore(raw.v, Normalize(raw.v),
                                    Get(resp.sources, DefaultSources(agent)), agent,
                                    Get(resp.notes, JStr("")), 50)

ComputeSignal(agent, resp) ==
    IF agent \in Guardrailed THEN GuardedComputeSignal(agent, resp)
    ELSE DirectComputeSignal(agent, resp)

(***************************************************************************)
(* triage_agent.py: TriageOrchestrator.triage                              *)
(***************************************************************************)
TriageDoc(concept, keywords, domains, depth) ==
    [kind |-> "object", core_concept |-> concept, technical_keywords |-> keywords,
     application_domains |-> domains, analysis_depth |-> depth]

IsStrList(v) == v.t = "list" /\ \A i \in 1..Len(v.l) : v.l[i].t = "str"

\* TriagedInvention(...): str, List[str], List[str], Literal["triage", "full"]
TriagedInvention(idea, concept, keywords, domains, depth) ==
    IF /\ concept.t = "str"
       /\ IsStrList(keywords)
       /\ IsStrList(domains)
       /\ depth.t = "str" /\ depth.s \in {"triage", "full"}
    THEN Return([idea_id |-> idea, core_concept |-> concept.s,
                 technical_keywords |-> [i \in 1..Len(keywords.l) |-> keywords.l[i].s],
                 application_domains |-> [i \in 1..Len(domains.l) |-> domains.l[i].s],
                 analysis_depth |-> depth.s])
    ELSE Raise("PydanticValidationError")

TriageResult(idea, resp) ==
    CASE resp.kind = "api_error" -> Raise("APIError")
      [] resp.kind = "bad_json" -> Raise("JSONDecodeError")
      [] resp.kind = "non_object" -> Raise("AttributeError")
      [] OTHER ->
            TriagedInvention(idea,
                             Get(resp.core_concept, JStr("")),
                             Get(resp.technical_keywords, JList(<<>>)),
                             Get(resp.application_domains, JList(<<>>)),
                             Get(resp.analysis_depth, JStr("full")))

(***************************************************************************)
(* reviewer_agent.py: ReviewerAgent.review                                 *)
(***************************************************************************)
ReviewDoc(conf, flags) == [kind |-> "object", confidence |-> conf, flags |-> flags]

ReviewResult(resp) ==
    CASE resp.kind = "api_error" -> Raise("APIError")
      [] resp.kind = "bad_json" -> Raise("JSONDecodeError")
      [] resp.kind = "non_object" -> Raise("AttributeError")
      [] OTHER -> Return([confidence |-> Get(resp.confidence, JStr("medium")),
                          flags |-> Get(resp.flags, JList(<<>>))])

(***************************************************************************)
(* swot_agent.py: SWOTAgent.generate_swot, and models.SWOT                 *)
(***************************************************************************)
\* the key order of the raw_scores / normalized_scores dicts calculate_prs builds
DimOrder == <<"tech_momentum", "market_gravity", "white_space",
              "strategic_leverage", "timing", "regulatory_alignment">>

\* variant: no validate_swot
SWOTUnchecked(strengths, weaknesses, opportunities, threats) ==
    Return([strengths |-> strengths, weaknesses |-> weaknesses,
            opportunities |-> opportunities, threats |-> threats])

\* SWOT(...): validate_swot rejects four empty lists
SWOT(strengths, weaknesses, opportunities, threats) ==
    IF Len(strengths) = 0 /\ Len(weaknesses) = 0
       /\ Len(opportunities) = 0 /\ Len(threats) = 0
    THEN Raise("PydanticValidationError")
    ELSE Return([strengths |-> strengths, weaknesses |-> weaknesses,
                 opportunities |-> opportunities, threats |-> threats])

\* normalized_scores.get(key, default)
ScoreOr(normalized, key, default) ==
    IF key \in DOMAIN normalized THEN normalized[key] ELSE default

\* variant: 70 itself is no strength
IsStrengthAbove(score) == score > 7000

IsStrength(score) == score >= 7000

\* variant: a score up to 50 is a weakness
IsWeaknessUpToHalf(score) == score <= 5000

IsWeakness(score) == score <= 4000

\* variant: 65 itself is no opportunity
IsOpportunityAbove(score) == score > 6500

IsOpportunity(score) == score >= 6500
IsThreat(score) == score <= 4000

\* _format_dimension: dimension.replace("_", " ").title()
FormatDimension(dimension) ==
    CASE dimension = "tech_momentum" -> "Tech Momentum"
      [] dimension = "market_gravity" -> "Market Gravity"
      [] dimension = "white_space" -> "White Space"
      [] dimension = "strategic_leverage" -> "Strategic Leverage"
      [] dimension = "timing" -> "Timing"
      [] dimension = "regulatory_alignment" -> "Regulatory Alignment"

\* f"{score:.1f}": the score in tenths (no modelled score lies halfway)
OneDecimal(score) == (score + 5) \div 10

\* one entry per kept key, in iteration order
Entries(kept, normalized) ==
    [i \in 1..Len(kept) |->
        [label |-> FormatDimension(kept[i]), score |-> OneDecimal(normalized[kept[i]])]]

\* for dimension, score in normalized_scores.items(): if score >= 70
Strengths(keys, normalized) ==
    LET Hit(k) == IsStrength(normalized[k])
    IN  Entries(SelectSeq(keys, Hit), normalized)

\* for dimension, score in normalized_scores.items(): if score <= 40
Weaknesses(keys, normalized) ==
    LET Hit(k) == IsWeakness(normalized[k])
    IN  Entries(SelectSeq(keys, Hit), normalized)

Labelled(cond, label, normalized, key) ==
    IF cond THEN <<[label |-> label, score |-> OneDecimal(normalized[key])]>> ELSE <<>>

\* keys: the dict's keys in iteration order
GenerateSwot(keys, normalized) ==
    SWOT(Strengths(keys, normalized),
         Weaknesses(keys, normalized),
         Labelled(IsOpportunity(ScoreOr(normalized, "market_gravity", 0)),
                  "Strong market potential", normalized, "market_gravity")
         \o Labelled(IsOpportunity(ScoreOr(normalized, "timing", 0)),
                     "Favorable timing", normalized, "timing"),
         Labelled(IsThreat(ScoreOr(normalized, "regulatory_alignment", 10000)),
                  "Regulatory friction", normalized, "regulatory_alignment")
         \o Labelled(IsThreat(ScoreOr(normalized, "white_space", 10000)),
                     "Crowded market", normalized, "white_space"))

(***************************************************************************)
(* hooks.py: PipelineHooks                                                 *)
(***************************************************************************)
NewHooks == [metrics |-> <<>>, all_flags |-> <<>>, total_tokens |-> 0, total_cost |-> 0]

\* variant: the metrics of an agent whose end was reported after 1.37 s
AgentMetricsTimed == [duration_seconds |-> 137, tokens_used |-> 0]

\* AgentMetrics(agent_name, start_time): the other fields at their defaults
AgentMetrics == [duration_seconds |-> 0, tokens_used |-> 0]

\* on_agent_start for each name of the sequence, in order
RECURSIVE OnAgentStart(_, _)
OnAgentStart(hk, names) ==
    IF names = <<>> THEN hk
    ELSE OnAgentStart(
            [hk EXCEPT !.metrics =
                [a \in DOMAIN hk.metrics \cup {Head(names)} |->
                    IF a = Head(names) THEN AgentMetrics ELSE hk.metrics[a]]],
            Tail(names))

\* on_validation_error(agent, issue) for each issue of the sequence
OnValidationErrors(hk, agent, issues) ==
    [hk EXCEPT !.all_flags =
        hk.all_flags \o [i \in 1..Len(issues) |->
            [flag |-> "VALIDATION_ERROR", agent |-> agent, issue |-> issues[i]]]]

\* on_quality_check(agent, issues)
OnQualityCheck(hk, agent, issues) ==
    [hk EXCEPT !.all_flags =
        hk.all_flags \o [i \in 1..Len(issues) |->
            [flag |-> "QUALITY_ISSUE", agent |-> agent, issue |-> issues[i]]]]

RECURSIVE SumDurations(_, _)
SumDurations(S, metrics) ==
    IF S = {} THEN 0
    ELSE LET a == CHOOSE x \in S : TRUE
         IN  metrics[a].duration_seconds + SumDurations(S \ {a}, metrics)

\* variant: the duration is left out of the summary
UsageSummaryNoDuration(hk) ==
    [total_tokens |-> hk.total_tokens,
     estimated_cost |-> hk.total_cost,
     agents_executed |-> Cardinality(DOMAIN hk.metrics)]

\* get_summary, as evaluate reads it into usage_summary
UsageSummary(hk) ==
    [total_tokens |-> hk.total_tokens,
     estimated_cost |-> hk.total_cost,
     duration_seconds |-> SumDurations(DOMAIN hk.metrics, hk.metrics),
     agents_executed |-> Cardinality(DOMAIN hk.metrics)]

(***************************************************************************)
(* models.py: PatentRelevanceOutput                                        *)
(***************************************************************************)
\* usage_summary: Dict[str, int] takes a float only if it has no fractional part
\* (estimated_cost and duration_seconds are held in hundredths)
UsageIsIntegral(usage) ==
    \/ DOMAIN usage = {}
    \/ /\ "estimated_cost" \in DOMAIN usage => usage.estimated_cost % 100 = 0
       /\ "duration_seconds" \in DOMAIN usage => usage.duration_seconds % 100 = 0

PatentRelevanceOutput(idea, raw, normalized, prs, sw, conf, evidence, flags, usage) ==
    IF /\ prs >= 0 /\ prs <= 10000
       /\ conf.t = "str" /\ conf.s \in {"low", "medium", "high"}
       /\ IsStrList(flags)
       /\ UsageIsIntegral(usage)
    THEN Return([idea_id |-> idea, dimension_scores |-> raw,
                 normalized_scores |-> normalized, patent_relevance_score |-> prs,
                 swot |-> sw, confidence |-> conf.s, evidence_map |-> evidence,
                 flags |-> [i \in 1..Len(flags.l) |-> flags.l[i].s],
                 usage_summary |-> usage])
    ELSE Raise("PydanticValidationError")

(***************************************************************************)
(* The responses the service gives in the modelled runs                    *)
(***************************************************************************)
GoodSources == JList(<<JStr("Google Trends"), JStr(" GitHub ")>>)
GoodNotes == JStr("steady growth ")

\* to an agent that asks for a confidence (tech_momentum, market_gravity)
GuardedResponses ==
    {ApiError, BadJson, NonObject,
     Doc(JNum(500), GoodSources, GoodNotes, JNum(30)),
     Doc(JNum(350), GoodSources, GoodNotes, JNum(60)),
     Doc(JNum(350), GoodSources, GoodNotes, JNum(10)),
     Doc(JNum(350), GoodSources, GoodNotes, JStr("high"))}

\* to an agent that asks for no confidence
DirectResponses ==
    {ApiError, BadJson,
     Doc(JNum(500), GoodSources, GoodNotes, JMissing),
     Doc(JMissing, JMissing, GoodNotes, JNum(90)),
     Doc(JNum(345), GoodSources, GoodNotes, JMissing),
     Doc(JNum(700), GoodSources, GoodNotes, JMissing)}

AgentResponses(agent) ==
    IF agent \in Guardrailed THEN GuardedResponses ELSE DirectResponses

TriageResponses ==
    {ApiError, BadJson, NonObject,
     TriageDoc(JStr("code review assistant"), JList(<<JStr("LLM")>>),
               JList(<<JStr("DevOps")>>), JStr("full")),
     TriageDoc(JStr("code review assistant"), JList(<<JStr("LLM")>>),
               JList(<<JStr("DevOps")>>), JStr("deep"))}

ReviewResponses ==
    {ApiError, BadJson, NonObject,
     ReviewDoc(JStr("high"), JList(<<>>)),
     ReviewDoc(JStr("low"), JList(<<JStr("vague sources")>>)),
     ReviewDoc(JMissing, JMissing),
     ReviewDoc(JNull, JList(<<>>)),
     ReviewDoc(JStr("certain"), JList(<<>>))}

IdeaId == "IDEA-001"

(***************************************************************************)
(* pipeline.py: PatentRelevancePipeline.evaluate on the asyncio event loop *)
(***************************************************************************)
PipeInit ==
    /\ pc = "start"
    /\ triaged = None
    /\ ready = <<>>
    /\ tasks = [a \in Agents |-> [state |-> "none", resp |-> None, result |-> None]]
    /\ outer = None
    /\ signals = None
    /\ batch = None
    /\ scored = None
    /\ reviewed = None
    /\ swot = None
    /\ output = None
    /\ raised = None
    /\ hooks = NewHooks
    /\ log = <<>>

Init == PipeInit /\ hooksOn \in BOOLEAN /\ h = None

\* variant: the exception is swallowed and evaluate returns what it has
FailQuiet(exc) ==
    /\ pc' = "done"
    /\ UNCHANGED raised

\* an exception leaves evaluate
Fail(exc) ==
    /\ pc' = "failed"
    /\ raised' = [t |-> "exception", exc |-> exc]

\* Step 1: triage's blocking call to the service is made
\* variant: the start of Triage is reported to the hooks as an agent's is
TriageCallCounted ==
    /\ pc = "start"
    /\ pc' = "triage"
    /\ hooks' = IF hooksOn THEN OnAgentStart(hooks, <<"TriageOrchestrator">>) ELSE hooks
    /\ log' = log \o <<"stage:Triage", "call:TriageOrchestrator">>
    /\ UNCHANGED <<hooksOn, triaged, ready, tasks, outer, signals, batch, scored,
                   reviewed, swot, output, raised, h>>

TriageCall ==
    /\ pc = "start"
    /\ pc' = "triage"
    /\ log' = log \o <<"stage:Triage", "call:TriageOrchestrator">>
    /\ UNCHANGED <<hooksOn, triaged, ready, tasks, outer, signals, batch, scored,
                   reviewed, swot, output, raised, hooks, h>>

\* variant: a failed triage call is made again
TriageReturnRetry ==
    /\ pc = "triage"
    /\ \E resp \in TriageResponses :
          LET r == TriageResult(IdeaId, resp)
          IN  IF r.ok
              THEN triaged' = r.v /\ pc' = "signals" /\ UNCHANGED raised
              ELSE IF resp.kind = "api_error" /\ Len(log) < 4
              THEN pc' = "start" /\ UNCHANGED <<triaged, raised>>
              ELSE Fail(r.exc) /\ UNCHANGED triaged
    /\ UNCHANGED <<hooksOn, ready, tasks, outer, signals, batch, scored, reviewed,
                   swot, output, hooks, log, h>>

\* variant: a failure of triage is swallowed and evaluate goes on
TriageReturnSwallow ==
    /\ pc = "triage"
    /\ \E resp \in TriageResponses :
          LET r == TriageResult(IdeaId, resp)
          IN  IF r.ok
              THEN triaged' = r.v /\ pc' = "signals" /\ UNCHANGED raised
              ELSE pc' = "signals" /\ UNCHANGED <<triaged, raised>>
    /\ UNCHANGED <<hooksOn, ready, tasks, outer, signals, batch, scored, reviewed,
                   swot, output, hooks, log, h>>

\* Step 1: the call returns (or raises) and triage parses the response
TriageReturn ==
    /\ pc = "triage"
    /\ \E resp \in TriageResponses :
          LET r == TriageResult(IdeaId, resp)
          IN  IF r.ok
              THEN triaged' = r.v /\ pc' = "signals" /\ UNCHANGED raised
              ELSE Fail(r.exc) /\ UNCHANGED triaged
    /\ UNCHANGED <<hooksOn, ready, tasks, outer, signals, batch, scored, reviewed,
                   swot, output, hooks, log, h>>

\* Step 2: on_agent_start for the six agents, then asyncio.gather wraps the six
\* coroutines in tasks (each scheduled with call_soon) and evaluate awaits it
FanOut ==
    /\ pc = "signals"
    /\ hooks' = IF hooksOn THEN OnAgentStart(hooks, AgentOrder) ELSE hooks
    /\ tasks' = [a \in Agents |-> [state |-> "pending", resp |-> None, result |-> None]]
    /\ ready' = [i \in 1..Len(AgentOrder) |-> [handle |-> "step", agent |-> AgentOrder[i]]]
    /\ outer' = [state |-> "pending", nfinished |-> 0, exc |-> "", results |-> <<>>]
    /\ pc' = "join"
    /\ log' = Append(log, "stage:Signals")
    /\ UNCHANGED <<hooksOn, triaged, signals, batch, scored, reviewed, swot,
                   output, raised, h>>

\* variant: the agents' calls are awaited, so the loop runs other handles meanwhile
LoopIdleWhileCalling ==
    /\ pc = "join"
    /\ ready # <<>>

\* the loop's thread is between handles, evaluate suspended on the gather future
LoopIdle ==
    /\ pc = "join"
    /\ \A a \in Agents : tasks[a].state # "running"
    /\ ready # <<>>

\* the loop runs a task's first step: compute_signal runs up to its blocking call
AgentCall(a) ==
    /\ LoopIdle
    /\ Head(ready) = [handle |-> "step", agent |-> a]
    /\ ready' = Tail(ready)
    /\ tasks' = [tasks EXCEPT ![a].state = "running"]
    /\ log' = Append(log, "call:" \o a)
    /\ UNCHANGED <<pc, hooksOn, triaged, outer, signals, batch, scored, reviewed,
                   swot, output, raised, hooks, h>>

\* the call returns (or raises); compute_signal runs to its end, the task is done
\* and its done-callback is scheduled
AgentReturn(a) ==
    /\ tasks[a].state = "running"
    /\ \E resp \in AgentResponses(a) :
          tasks' = [tasks EXCEPT ![a] = [state |-> "done", resp |-> resp,
                                         result |-> ComputeSignal(a, resp)]]
    /\ ready' = Append(ready, [handle |-> "done", agent |-> a])
    /\ UNCHANGED <<pc, hooksOn, triaged, outer, signals, batch, scored, reviewed,
                   swot, output, raised, hooks, log, h>>

Wakeup == [handle |-> "wakeup", agent |-> ""]

\* gather's _done_callback for one child
GatherDone(a) ==
    /\ LoopIdle
    /\ Head(ready) = [handle |-> "done", agent |-> a]
    /\ LET n == outer.nfinished + 1
           res == tasks[a].result
       IN  IF outer.state # "pending"
           THEN /\ outer' = [outer EXCEPT !.nfinished = n]
                /\ ready' = Tail(ready)
           ELSE IF ~res.ok
           THEN /\ outer' = [outer EXCEPT !.nfinished = n, !.state = "exception",
                                          !.exc = res.exc]
                /\ ready' = Append(Tail(ready), Wakeup)
           ELSE IF n = Len(AgentOrder)
           THEN /\ outer' = [outer EXCEPT !.nfinished = n, !.state = "result",
                                !.results = [i \in 1..Len(AgentOrder) |->
                                                tasks[AgentOrder[i]].result.v]]
                /\ ready' = Append(Tail(ready), Wakeup)
           ELSE /\ outer' = [outer EXCEPT !.nfinished = n]
                /\ ready' = Tail(ready)
    /\ UNCHANGED <<pc, hooksOn, triaged, tasks, signals, batch, scored, reviewed,
                   swot, output, raised, hooks, log, h>>

\* variant: gather(..., return_exceptions=True): evaluate goes on after a failure
ResumeReturnExceptions ==
    /\ LoopIdle
    /\ Head(ready) = Wakeup
    /\ ready' = Tail(ready)
    /\ signals' = outer.results /\ pc' = "validate" /\ UNCHANGED raised
    /\ UNCHANGED <<hooksOn, triaged, tasks, outer, batch, scored, reviewed, swot,
                   output, hooks, log, h>>

\* evaluate resumes from "await asyncio.gather(...)"
Resume ==
    /\ LoopIdle
    /\ Head(ready) = Wakeup
    /\ ready' = Tail(ready)
    /\ IF outer.state = "exception"
       THEN Fail(outer.exc) /\ UNCHANGED signals
       ELSE signals' = outer.results /\ pc' = "validate" /\ UNCHANGED raised
    /\ UNCHANGED <<hooksOn, triaged, tasks, outer, batch, scored, reviewed, swot,
                   output, hooks, log, h>>

\* Step 3: validate_multiple_scores, its issues reported to the hooks
Validate ==
    /\ pc = "validate"
    /\ LET b == ValidateMultipleScores(signals, 6)
       IN  /\ batch' = b
           /\ hooks' = IF hooksOn /\ ~b.is_valid
                        THEN OnValidationErrors(hooks, "signals_batch", b.issues)
                        ELSE hooks
    /\ pc' = "score"
    /\ log' = Append(log, "stage:Validate")
    /\ UNCHANGED <<hooksOn, triaged, ready, tasks, outer, signals, scored, reviewed,
                   swot, output, raised, h>>

\* variant: the results of the join handed over in the order of the join
ScoreInJoinOrder ==
    /\ pc = "score"
    /\ scored' = CalculatePRS(signals[1], signals[2], signals[3],
                              signals[4], signals[5], signals[6])
    /\ pc' = "review"
    /\ log' = Append(log, "stage:Score")
    /\ UNCHANGED <<hooksOn, triaged, ready, tasks, outer, signals, batch, reviewed,
                   swot, output, raised, hooks, h>>

\* Step 4: calculate_prs
Score ==
    /\ pc = "score"
    /\ scored' = CalculatePRS(signals[1], signals[2], signals[3],
                              signals[5], signals[6], signals[4])
    /\ pc' = "review"
    /\ log' = Append(log, "stage:Score")
    /\ UNCHANGED <<hooksOn, triaged, ready, tasks, outer, signals, batch, reviewed,
                   swot, output, raised, hooks, h>>

\* Step 5: the reviewer's blocking call is made
ReviewCall ==
    /\ pc = "review"
    /\ pc' = "reviewing"
    /\ log' = log \o <<"stage:Review", "call:ReviewerAgent">>
    /\ UNCHANGED <<hooksOn, triaged, ready, tasks, outer, signals, batch, scored,
                   reviewed, swot, output, raised, hooks, h>>

\* variant: a "low" from the reviewer zeroes the relevance score
ReviewReturnRescoring ==
    /\ pc = "reviewing"
    /\ \E resp \in ReviewResponses :
          LET r == ReviewResult(resp)
          IN  IF r.ok /\ r.v.confidence.t = "str"
              THEN /\ reviewed' = r.v
                   /\ scored' = [scored EXCEPT
                                    !.prs = IF r.v.confidence.s = "low" THEN 0 ELSE @]
                   /\ pc' = "swot"
                   /\ UNCHANGED <<raised, hooks>>
              ELSE Fail("APIError") /\ UNCHANGED <<reviewed, scored, hooks>>
    /\ UNCHANGED <<hooksOn, triaged, ready, tasks, outer, signals, batch,
                   swot, output, log, h>>

\* Step 5: the call returns (or raises); flags go to on_quality_check
ReviewReturn ==
    /\ pc = "reviewing"
    /\ \E resp \in ReviewResponses :
          LET r == ReviewResult(resp)
          IN  IF r.ok /\ r.v.confidence.t # "str"
              THEN \* confidence.upper() on a value that is no string
                   Fail("AttributeError") /\ UNCHANGED <<reviewed, hooks>>
              ELSE IF r.ok
              THEN /\ reviewed' = r.v
                   /\ hooks' = IF hooksOn /\ Len(r.v.flags.l) > 0
                                THEN OnQualityCheck(hooks, "reviewer", r.v.flags.l)
                                ELSE hooks
                   /\ pc' = "swot"
                   /\ UNCHANGED raised
              ELSE Fail(r.exc) /\ UNCHANGED <<reviewed, hooks>>
    /\ UNCHANGED <<hooksOn, triaged, ready, tasks, outer, signals, batch, scored,
                   swot, output, log, h>>

\* Step 6: generate_swot
Synthesize ==
    /\ pc = "swot"
    /\ LET r == GenerateSwot(DimOrder, scored.normalized_scores)
       IN  IF r.ok
           THEN swot' = r.v /\ pc' = "assemble" /\ UNCHANGED raised
           ELSE Fail(r.exc) /\ UNCHANGED swot
    /\ log' = Append(log, "stage:Synthesize")
    /\ UNCHANGED <<hooksOn, triaged, ready, tasks, outer, signals, batch, scored,
                   reviewed, output, hooks, h>>

\* usage_summary and PatentRelevanceOutput(...), with "if self.hooks" as given
AssembleOutcome(on) ==
    LET usage == IF on THEN UsageSummary(hooks) ELSE <<>>
    IN  PatentRelevanceOutput(IdeaId, scored.raw_scores, scored.normalized_scores,
                              scored.prs, swot, reviewed.confidence,
                              scored.evidence_map, reviewed.flags, usage)

\* usage_summary, PatentRelevanceOutput(...), return
Assemble ==
    /\ pc = "assemble"
    /\ LET r == AssembleOutcome(hooksOn)
       IN  IF r.ok
           THEN output' = r.v /\ pc' = "done" /\ UNCHANGED raised
           ELSE Fail(r.exc) /\ UNCHANGED output
    /\ log' = Append(log, "stage:Assemble")
    /\ UNCHANGED <<hooksOn, triaged, ready, tasks, outer, signals, batch, scored,
                   reviewed, swot, hooks, h>>

Next ==
    \/ TriageCall
    \/ TriageReturn
    \/ FanOut
    \/ \E a \in Agents : AgentCall(a)
    \/ \E a \in Agents : AgentReturn(a)
    \/ \E a \in Agents : GatherDone(a)
    \/ Resume
    \/ Validate
    \/ Score
    \/ ReviewCall
    \/ ReviewReturn
    \/ Synthesize
    \/ Assemble

Spec == Init /\ [][Next]_vars

(***************************************************************************)
(* Direct calls of the pure functions: h holds the arguments, then the     *)
(* return.  The pipeline stays as constructed.                             *)
(***************************************************************************)
PipeIdle == PipeInit /\ hooksOn = FALSE

\* ------------------------------------------------ validate_dimension_score
ScoreValues ==
    {JMissing, JNull, JStr("high"), JStr("3.5"), JNum(-10), JNum(0), JNum(250),
     JNum(500), JNum(510)}

SourcesValues ==
    {JMissing, JStr("web"), JList(<<>>),
     JList(<<JStr("a")>>), JList(<<JStr(" a ")>>),
     JList(<<JStr("")>>), JList(<<JStr("  ")>>),
     JList(<<JStr("a"), JStr("")>>), JList(<<JStr("  "), JStr("a"), JStr("b")>>),
     JList(<<JNum(7), JStr("b")>>), JList(<<JNum(7)>>)}

NotesValues ==
    {JMissing, JNum(1), JStr(""), JStr("ok"), JStr("abcd"), JStr("abcde"),
     JStr("  abcd  "), JStr(" abcde ")}

ConfidenceValues ==
    {JMissing, JNull, JStr("high"), JStr("0.1"), JNum(-10), JNum(10), JNum(29),
     JNum(30), JNum(50), JNum(100), JNum(120)}

MinConfidences == {30, 50}

ValidateInputs ==
    {BadJson, NonObject}
    \cup {Doc(sc, so, no, co) : sc \in ScoreValues, so \in SourcesValues,
                                no \in NotesValues, co \in ConfidenceValues}

InitValidate ==
    /\ PipeIdle
    /\ h \in [fn : {"validate_dimension_score"}, resp : ValidateInputs,
               agent : {"TechnologySignalAgent"}, min_confidence : MinConfidences,
               ret : {None}]

CallValidate ==
    /\ h.fn = "validate_dimension_score"
    /\ h.ret = None
    /\ h' = [h EXCEPT !.ret = ValidateDimensionScore(h.resp, h.agent, h.min_confidence)]
    /\ UNCHANGED pipeVars

SpecValidate == InitValidate /\ [][CallValidate]_vars

\* ------------------------------------------------ validate_multiple_scores
MaxBatch == 6

\* DimensionScores of the four kinds the batch check tells apart
BatchScore(norm, conf) ==
    [raw_score |-> norm \div 20, normalized_score |-> norm, sources |-> <<"s">>,
     agent |-> "A", notes |-> "notes", confidence |-> conf]

BatchScores ==
    {BatchScore(5000, 10), BatchScore(9500, 25), BatchScore(9600, 25),
     BatchScore(9600, 60)}

RequiredCounts == {0, 3, 6}

InitBatch ==
    /\ PipeIdle
    /\ \E n \in 0..MaxBatch :
          h \in [fn : {"validate_multiple_scores"}, scores : [1..n -> BatchScores],
                 required : RequiredCounts, ret : {None}]

CallBatch ==
    /\ h.fn = "validate_multiple_scores"
    /\ h.ret = None
    /\ h' = [h EXCEPT !.ret = ValidateMultipleScores(h.scores, h.required)]
    /\ UNCHANGED pipeVars

SpecBatch == InitBatch /\ [][CallBatch]_vars

\* ------------------------------------------------ calculate_prs
RawGrid == {0, 125, 370, 500}

RawScore(raw, agent) ==
    [raw_score |-> raw, normalized_score |-> Normalize(raw), sources |-> <<"s">>,
     agent |-> agent, notes |-> "notes", confidence |-> 50]

InitPRS ==
    /\ PipeIdle
    /\ \E raw \in [Dims -> RawGrid] :
          h = [fn |-> "calculate_prs",
               scores |-> [d \in Dims |-> RawScore(raw[d], d)],
               ret |-> None]

CallPRS ==
    /\ h.fn = "calculate_prs"
    /\ h.ret = None
    /\ h' = [h EXCEPT !.ret =
                CalculatePRS(h.scores["tech_momentum"], h.scores["market_gravity"],
                             h.scores["white_space"], h.scores["strategic_leverage"],
                             h.scores["timing"], h.scores["regulatory_alignment"])]
    /\ UNCHANGED pipeVars

SpecPRS == InitPRS /\ [][CallPRS]_vars

\* ------------------------------------------------ triage
ConceptValues == {JMissing, JNull, JNum(3), JStr("code review assistant")}
StrListValues == {JMissing, JStr("LLM"), JList(<<JNum(3)>>), JList(<<JStr("LLM")>>)}
DepthValues == {JMissing, JNull, JStr("deep"), JStr("triage"), JStr("full")}

TriageInputs ==
    {ApiError, BadJson, NonObject}
    \cup {TriageDoc(c, k, d, a) : c \in ConceptValues, k \in StrListValues,
                                  d \in StrListValues, a \in DepthValues}

InitTriage ==
    /\ PipeIdle
    /\ h \in [fn : {"triage"}, resp : TriageInputs, ret : {None}]

CallTriage ==
    /\ h.fn = "triage"
    /\ h.ret = None
    /\ h' = [h EXCEPT !.ret = TriageResult(IdeaId, h.resp)]
    /\ UNCHANGED pipeVars

SpecTriage == InitTriage /\ [][CallTriage]_vars

(***************************************************************************)
(* app.py: the sessions, the request handlers of POST /api/evaluate, the   *)
(* background evaluation threads and the status and result routes.         *)
(* h.clock is the session id last read off the clock, h.table the session  *)
(* table (for each id the request whose dict it holds), h.dicts the        *)
(* session dict each request's create_session made, h.handlers the         *)
(* position of every evaluate handler, h.threads the position of every     *)
(* background thread, and h.polls the handlers of the status and result    *)
(* routes that are under way. A handler or thread that has looked a        *)
(* session up holds that dict (ref) until it has read or stored.           *)
(***************************************************************************)
MaxSessions == 2

MaxRequests == 2

\* evaluate requests with a body InventionInput accepts
MaxEvaluations == 1

\* status and result requests under way at one time
MaxPolls == 1

\* the session ids int(datetime.now().timestamp() * 1000) gives, numbered in
\* the order of the milliseconds read
SessionIds == 1..MaxSessions

\* the evaluate requests handled, in the order of their arrival
RequestIds == 1..MaxRequests

\* the bodies of the requests that pass the two length tests
RequestBodies == {"valid", "bad_domains"}

\* the status and result requests that can be under way at one time
PollIds == 1..MaxPolls

\* what the service answers the calls of a background thread's evaluate
WebTriageResponses ==
    {ApiError,
     TriageDoc(JStr("code review assistant"), JList(<<JStr("LLM")>>),
               JList(<<JStr("DevOps")>>), JStr("full"))}

\* to the technology agent
WebTechResponses ==
    {Doc(JNum(350), GoodSources, GoodNotes, JNum(60)),
     Doc(JNum(350), GoodSources, GoodNotes, JStr("high"))}

\* one response for each of the six agents: malformed JSON for the market
\* agent, a response without a score for the last three
WebScript(tech) ==
    [a \in Agents |->
        CASE a = "TechnologySignalAgent" -> tech
          [] a = "MarketSignalAgent" -> BadJson
          [] OTHER -> Doc(JMissing, JMissing, GoodNotes, JNum(90))]

WebReviewResponses ==
    {ReviewDoc(JStr("high"), JList(<<>>)),
     ReviewDoc(JStr("low"), JList(<<JStr("vague sources")>>))}

\* asyncio.gather over the six compute_signal calls, which run one after the
\* other in the order of the arguments: the six scores, or the first exception
GatherOutcome(resps) ==
    LET res == [i \in 1..6 |-> ComputeSignal(AgentOrder[i], resps[AgentOrder[i]])]
        failed == {i \in 1..6 : ~res[i].ok}
    IN  IF failed = {}
        THEN Return([i \in 1..6 |-> res[i].v])
        ELSE Raise(res[CHOOSE i \in failed : \A j \in failed : i <= j].exc)

\* SessionManager.create_session: the dict a session starts as
NewSession == [status |-> "pending", progress |-> 0, result |-> None, error |-> None]

\* session_id in self.sessions
KnownSession(id) == id \in DOMAIN h.table

\* self.sessions[session_id]: the dict the table holds for the id now
SessionOf(id) == h.dicts[h.table[id]]

\* self.sessions[session_id] = {...}: request k's new dict takes the id's place
\* in the table; a dict that was there lives on with whoever holds it
CreateSession(table, id, k) ==
    [i \in DOMAIN table \cup {id} |-> IF i = id THEN k ELSE table[i]]

Response(route, id, code, body) == [route |-> route, id |-> id, code |-> code, body |-> body]

InitWeb ==
    /\ PipeIdle
    /\ h = [clock |-> 0, table |-> <<>>, dicts |-> [k \in RequestIds |-> None],
            handlers |-> <<>>, threads |-> <<>>, polls |-> [n \in PollIds |-> None]]

\* POST /api/evaluate with a title or description that is too short
EvaluateRejected ==
    /\ Len(h.handlers) < MaxRequests
    /\ h' = [h EXCEPT !.handlers = Append(h.handlers, [sid |-> 0, body |-> "short", at |-> "rejected", ref |-> 0])]
    /\ UNCHANGED pipeVars

\* POST /api/evaluate with no JSON object, or a title, description or
\* technical_domain that is no text: the except branch answers 500
EvaluateCrashed ==
    /\ Len(h.handlers) < MaxRequests
    /\ h' = [h EXCEPT !.handlers = Append(h.handlers, [sid |-> 0, body |-> "no_json", at |-> "crashed", ref |-> 0])]
    /\ UNCHANGED pipeVars

\* POST /api/evaluate: the request passes the two length tests and the session
\* id is read off the clock: the millisecond of the last reading, or a later
\* one. Its body is one InventionInput accepts, or one whose application_domains
\* is no list of texts (up to MaxEvaluations requests carry the former)
EvaluateReceive(id, body) ==
    /\ Len(h.handlers) < MaxRequests
    /\ id \in {h.clock, h.clock + 1} \ {0}
    /\ body = "valid" =>
          Cardinality({k \in DOMAIN h.handlers : h.handlers[k].body = "valid"}) < MaxEvaluations
    /\ h' = [h EXCEPT !.clock = id,
                      !.handlers = Append(h.handlers, [sid |-> id, body |-> body,
                                                       at |-> "create", ref |-> 0])]
    /\ UNCHANGED pipeVars

HandlerAt(k, at) == k \in DOMAIN h.handlers /\ h.handlers[k].at = at

\* POST /api/evaluate: create_session(session_id)
EvaluateCreate(k) ==
    /\ HandlerAt(k, "create")
    /\ h' = [h EXCEPT !.table = CreateSession(h.table, h.handlers[k].sid, k),
                      !.dicts[k] = NewSession,
                      !.handlers[k].at = "lookup"]
    /\ UNCHANGED pipeVars

\* POST /api/evaluate, set_status(session_id, "running"): self.sessions[session_id]
EvaluateLookup(k) ==
    /\ HandlerAt(k, "lookup")
    /\ h' = [h EXCEPT !.handlers[k].ref = h.table[h.handlers[k].sid],
                      !.handlers[k].at = "set_status"]
    /\ UNCHANGED pipeVars

\* POST /api/evaluate, set_status(session_id, "running"): the store into the dict
EvaluateSetRunning(k) ==
    /\ HandlerAt(k, "set_status")
    /\ h' = [h EXCEPT !.dicts[h.handlers[k].ref].status = "running",
                      !.handlers[k].ref = 0,
                      !.handlers[k].at = "start"]
    /\ UNCHANGED pipeVars

\* POST /api/evaluate: InventionInput(...) is built and the thread is started
EvaluateStart(k) ==
    /\ HandlerAt(k, "start")
    /\ h.handlers[k].body = "valid"
    /\ h' = [h EXCEPT !.threads = Append(h.threads,
                                         [sid |-> h.handlers[k].sid, at |-> "triage",
                                          todo |-> 2, mem |-> None, ref |-> 0]),
                      !.handlers[k].at = "respond"]
    /\ UNCHANGED pipeVars

\* POST /api/evaluate: InventionInput(...) rejects the request's
\* application_domains; no thread is started and the except branch answers 500
EvaluateAborted(k) ==
    /\ HandlerAt(k, "start")
    /\ h.handlers[k].body = "bad_domains"
    /\ h' = [h EXCEPT !.handlers[k].at = "aborted"]
    /\ UNCHANGED pipeVars

\* POST /api/evaluate: the 202 response
EvaluateRespond(k) ==
    /\ HandlerAt(k, "respond")
    /\ h' = [h EXCEPT !.handlers[k].at = "responded"]
    /\ UNCHANGED pipeVars

\* the response of POST /api/evaluate to request k, None while it has sent none
EvaluateResponse(k) ==
    CASE HandlerAt(k, "rejected") -> Response("evaluate", 0, 400, [t |-> "error"])
      [] HandlerAt(k, "crashed") -> Response("evaluate", 0, 500, [t |-> "error"])
      [] HandlerAt(k, "aborted") -> Response("evaluate", h.handlers[k].sid, 500, [t |-> "error"])
      [] HandlerAt(k, "responded") ->
            Response("evaluate", h.handlers[k].sid, 202, [t |-> "started"])
      [] OTHER -> None

\* thread t has written its pending progress messages and is about to do `at`
ThreadAt(t, at) == t \in DOMAIN h.threads /\ h.threads[t].at = at /\ h.threads[t].todo = 0

\* thread t goes on: n progress messages to write, then `at`
Goto(t, at, n, mem) ==
    [sid |-> h.threads[t].sid, at |-> at, todo |-> n, mem |-> mem, ref |-> 0]

\* update_progress, set_status, set_result and set_error each begin with
\* self.sessions[session_id]: thread t gets hold of the dict the table holds now
ThreadLookup(t) ==
    /\ t \in DOMAIN h.threads
    /\ h.threads[t].ref = 0
    /\ \/ h.threads[t].todo > 0
       \/ h.threads[t].at \in {"set_status", "set_result", "except", "set_error"}
    /\ h' = [h EXCEPT !.threads[t].ref = h.table[h.threads[t].sid]]
    /\ UNCHANGED pipeVars

\* thread t holds a dict and is about to store into it what `at` names
ThreadHolds(t, at) == ThreadAt(t, at) /\ h.threads[t].ref # 0

\* one update_progress call of the thread, of run_evaluation_async itself or of
\* a WebHooks callback that evaluate calls: the append to the dict's list
ThreadProgress(t) ==
    /\ t \in DOMAIN h.threads
    /\ h.threads[t].todo > 0
    /\ h.threads[t].ref # 0
    /\ h' = [h EXCEPT !.dicts[h.threads[t].ref].progress = @ + 1,
                      !.threads[t].todo = @ - 1,
                      !.threads[t].ref = 0]
    /\ UNCHANGED pipeVars

\* run_evaluation_async: the pipeline is built and evaluate runs up to the
\* triage call's return; on_agent_start then writes six messages
ThreadTriage(t) ==
    /\ ThreadAt(t, "triage")
    /\ \E resp \in WebTriageResponses :
          LET r == TriageResult(h.threads[t].sid, resp)
          IN  h' = [h EXCEPT !.threads[t] =
                        IF r.ok THEN Goto(t, "gather", 6, None)
                        ELSE Goto(t, "except", 0, [exc |-> r.exc])]
    /\ UNCHANGED pipeVars

\* evaluate: the six agents' calls, the batch check (on_validation_error writes
\* a message per issue), on_score_generated (six messages) and calculate_prs
ThreadGather(t) ==
    /\ ThreadAt(t, "gather")
    /\ \E tech \in WebTechResponses :
          LET g == GatherOutcome(WebScript(tech))
              b == ValidateMultipleScores(g.v, 6)
              sc == CalculatePRS(g.v[1], g.v[2], g.v[3], g.v[5], g.v[6], g.v[4])
          IN  h' = [h EXCEPT !.threads[t] =
                       IF g.ok
                       THEN Goto(t, "review", Len(b.issues) + 6, [scored |-> sc])
                       ELSE Goto(t, "except", 0, [exc |-> g.exc])]
    /\ UNCHANGED pipeVars

\* evaluate: the reviewer's call; on_quality_check writes a message for flags
ThreadReview(t) ==
    /\ ThreadAt(t, "review")
    /\ \E resp \in WebReviewResponses :
          LET r == ReviewResult(resp)
          IN  h' = [h EXCEPT !.threads[t] =
                        IF r.ok /\ r.v.confidence.t # "str"
                        THEN Goto(t, "except", 0, [exc |-> "AttributeError"])
                        ELSE IF r.ok
                        THEN Goto(t, "swot", IF Len(r.v.flags.l) > 0 THEN 1 ELSE 0,
                                  [scored |-> h.threads[t].mem.scored, reviewed |-> r.v])
                        ELSE Goto(t, "except", 0, [exc |-> r.exc])]
    /\ UNCHANGED pipeVars

\* evaluate: generate_swot, usage_summary, PatentRelevanceOutput(...), return;
\* run_evaluation_async then has thirteen messages to write
ThreadSynthesize(t) ==
    /\ ThreadAt(t, "swot")
    /\ LET m == h.threads[t].mem
           sw == GenerateSwot(DimOrder, m.scored.normalized_scores)
           out == PatentRelevanceOutput(h.threads[t].sid, m.scored.raw_scores,
                                        m.scored.normalized_scores, m.scored.prs, sw.v,
                                        m.reviewed.confidence, m.scored.evidence_map,
                                        m.reviewed.flags,
                                        UsageSummary(OnAgentStart(NewHooks, AgentOrder)))
       IN  h' = [h EXCEPT !.threads[t] =
                     IF ~sw.ok THEN Goto(t, "except", 0, [exc |-> sw.exc])
                     ELSE IF ~out.ok THEN Goto(t, "except", 0, [exc |-> out.exc])
                     ELSE Goto(t, "set_status", 13, [result |-> out.v])]
    /\ UNCHANGED pipeVars

\* run_evaluation_async: set_status(session_id, "completed"), the store
ThreadSetCompleted(t) ==
    /\ ThreadHolds(t, "set_status")
    /\ h' = [h EXCEPT !.dicts[h.threads[t].ref].status = "completed",
                      !.threads[t].ref = 0,
                      !.threads[t].at = "set_result"]
    /\ UNCHANGED pipeVars

\* run_evaluation_async: set_result(session_id, {"result": ..., "images": ...}),
\* the store
ThreadSetResult(t) ==
    /\ ThreadHolds(t, "set_result")
    /\ h' = [h EXCEPT !.dicts[h.threads[t].ref].result =
                          [t |-> "dict", result |-> h.threads[t].mem.result],
                      !.threads[t] = Goto(t, "end", 0, None)]
    /\ UNCHANGED pipeVars

\* run_evaluation_async, except branch: set_status(session_id, "failed"), the
\* store
ThreadSetFailed(t) ==
    /\ ThreadHolds(t, "except")
    /\ h' = [h EXCEPT !.dicts[h.threads[t].ref].status = "failed",
                      !.threads[t].ref = 0,
                      !.threads[t].at = "set_error"]
    /\ UNCHANGED pipeVars

\* run_evaluation_async, except branch: set_error(session_id, str(e)), the
\* store; the error's progress message is still to write
ThreadSetError(t) ==
    /\ ThreadHolds(t, "set_error")
    /\ h' = [h EXCEPT !.dicts[h.threads[t].ref].error =
                          [t |-> "str", s |-> h.threads[t].mem.exc],
                      !.threads[t] = Goto(t, "end", 1, None)]
    /\ UNCHANGED pipeVars

PollAt(n, route, at) ==
    /\ h.polls[n] # None
    /\ h.polls[n].route = route
    /\ h.polls[n].at = at

\* the session dict handler n got from get_session and reads from
Held(n) == h.dicts[h.polls[n].ref]

\* GET /api/status/<session_id>: get_session; an unknown id is answered 404
GetStatusLookup(n, id) ==
    /\ h.polls[n] = None
    /\ h' = IF KnownSession(id)
            THEN [h EXCEPT !.polls[n] = [route |-> "status", id |-> id, ref |-> h.table[id],
                                         at |-> "progress", progress |-> 0, status |-> ""]]
            ELSE h
    /\ UNCHANGED pipeVars

\* get_status: the comprehension over the progress list comes to the list's end
GetStatusProgress(n) ==
    /\ PollAt(n, "status", "progress")
    /\ h' = [h EXCEPT !.polls[n].progress = Held(n).progress,
                      !.polls[n].at = "status"]
    /\ UNCHANGED pipeVars

\* get_status: session.get("status")
GetStatusStatus(n) ==
    /\ PollAt(n, "status", "status")
    /\ h' = [h EXCEPT !.polls[n].status = Held(n).status,
                      !.polls[n].at = "error"]
    /\ UNCHANGED pipeVars

\* the response get_status sends when it reads session.get("error") now
GetStatus(n) ==
    Response("status", h.polls[n].id, 200,
             [t |-> "status", status |-> h.polls[n].status,
              progress |-> h.polls[n].progress, error |-> Held(n).error])

\* get_status: session.get("error") is read and the response is sent
GetStatusRespond(n) ==
    /\ PollAt(n, "status", "error")
    /\ h' = [h EXCEPT !.polls[n] = None]
    /\ UNCHANGED pipeVars

\* GET /api/result/<session_id>: get_session; an unknown id is answered 404
GetResultLookup(n, id) ==
    /\ h.polls[n] = None
    /\ h' = IF KnownSession(id)
            THEN [h EXCEPT !.polls[n] = [route |-> "result", id |-> id, ref |-> h.table[id],
                                         at |-> "status", progress |-> 0, status |-> ""]]
            ELSE h
    /\ UNCHANGED pipeVars

\* get_result: session["status"] is read; 400 is sent unless it is completed
GetResultStatus(n) ==
    /\ PollAt(n, "result", "status")
    /\ h' = IF Held(n).status \in {"completed", "complete"}
            THEN [h EXCEPT !.polls[n].status = Held(n).status,
                           !.polls[n].at = "result"]
            ELSE [h EXCEPT !.polls[n] = None]
    /\ UNCHANGED pipeVars

\* the response get_result sends when it reads session.get("result") now
GetResult(n) ==
    IF Held(n).result.t = "dict"
    THEN Response("result", h.polls[n].id, 200,
                  [t |-> "result", v |-> Held(n).result.result])
    ELSE Response("result", h.polls[n].id, 200, JNull)

\* get_result: session.get("result") is read and the response is sent
GetResultRespond(n) ==
    /\ PollAt(n, "result", "result")
    /\ h' = [h EXCEPT !.polls[n] = None]
    /\ UNCHANGED pipeVars

NextWeb ==
    \/ EvaluateRejected
    \/ EvaluateCrashed
    \/ \E id \in SessionIds, body \in RequestBodies : EvaluateReceive(id, body)
    \/ \E n \in PollIds :
          \/ \E id \in SessionIds : GetStatusLookup(n, id) \/ GetResultLookup(n, id)
          \/ GetStatusProgress(n)
          \/ GetStatusStatus(n)
          \/ GetStatusRespond(n)
          \/ GetResultStatus(n)
          \/ GetResultRespond(n)
    \/ \E k \in RequestIds :
          \/ EvaluateCreate(k)
          \/ EvaluateLookup(k)
          \/ EvaluateSetRunning(k)
          \/ EvaluateStart(k)
          \/ EvaluateAborted(k)
          \/ EvaluateRespond(k)
          \/ ThreadLookup(k)
          \/ ThreadProgress(k)
          \/ ThreadTriage(k)
          \/ ThreadGather(k)
          \/ ThreadReview(k)
          \/ ThreadSynthesize(k)
          \/ ThreadSetCompleted(k)
          \/ ThreadSetResult(k)
          \/ ThreadSetFailed(k)
          \/ ThreadSetError(k)

SpecWeb == InitWeb /\ [][NextWeb]_vars

\* ------------------------------------------------ ScoringAgent instances
MaxAgents == 2
MaxCalls == 3

\* three sets of six DimensionScores; the first and the third hold equal values
ScorePool ==
    <<[d \in Dims |-> RawScore(370, d)],
      [d \in Dims |-> RawScore(IF d = "timing" THEN 500 ELSE 125, d)],
      [d \in Dims |-> RawScore(370, d)]>>

\* the module's SCORING_WEIGHTS dict (every self.weights refers to it), the
\* argument objects, the number of ScoringAgent instances, and the calls of
\* calculate_prs: each with its agent, its arguments, the statement it has come
\* to, its local variables and, once it has returned, what it returned
InitAggregator ==
    /\ PipeIdle
    /\ h = [fn |-> "ScoringAgent",
            heap |-> [weights |-> SCORING_WEIGHTS, pool |-> ScorePool],
            agents |-> 0,
            calls |-> <<>>]

\* ScoringAgent(): self.weights = SCORING_WEIGHTS
NewScoringAgent ==
    /\ h.fn = "ScoringAgent"
    /\ h.agents < MaxAgents
    /\ h' = [h EXCEPT !.agents = @ + 1]
    /\ UNCHANGED pipeVars

\* agent i's calculate_prs is called on the k-th argument set
CallAggregator(i, k) ==
    /\ h.fn = "ScoringAgent"
    /\ i \in 1..h.agents
    /\ Len(h.calls) < MaxCalls
    /\ h' = [h EXCEPT !.calls = Append(@, [agent |-> i, k |-> k, pc |-> "raw_scores",
                                           raw_scores |-> None, normalized_scores |-> None,
                                           prs |-> None, evidence_map |-> None,
                                           ret |-> None])]
    /\ UNCHANGED pipeVars

\* call c has come to the statement `at` names
CallAt(c, at) == h.fn = "ScoringAgent" /\ c \in DOMAIN h.calls /\ h.calls[c].pc = at

\* the six DimensionScore objects call c was given, as they are now
Arguments(c) == h.heap.pool[h.calls[c].k]

\* raw_scores = {"tech_momentum": tech_momentum.raw_score, ...}
CollectRawScores(c) ==
    /\ CallAt(c, "raw_scores")
    /\ h' = [h EXCEPT !.calls[c].raw_scores = [d \in Dims |-> Arguments(c)[d].raw_score],
                      !.calls[c].pc = "normalized_scores"]
    /\ UNCHANGED pipeVars

\* variant: the normalized values are also written back into the arguments
NormalizeScoresInPlace(c) ==
    /\ CallAt(c, "normalized_scores")
    /\ h' = [h EXCEPT !.calls[c].normalized_scores =
                          [d \in Dims |-> Normalize(h.calls[c].raw_scores[d])],
                      !.heap.pool[h.calls[c].k] =
                          [d \in Dims |-> [@[d] EXCEPT !.raw_score =
                                               Normalize(h.calls[c].raw_scores[d])]],
                      !.calls[c].pc = "prs"]
    /\ UNCHANGED pipeVars

\* normalized_scores = {key: (value / 5) * 100 for key, value in raw_scores.items()}
NormalizeScores(c) ==
    /\ CallAt(c, "normalized_scores")
    /\ h' = [h EXCEPT !.calls[c].normalized_scores =
                          [d \in Dims |-> Normalize(h.calls[c].raw_scores[d])],
                      !.calls[c].pc = "prs"]
    /\ UNCHANGED pipeVars

\* prs = sum(normalized_scores[dimension] * weight
\*           for dimension, weight in self.weights.items())
WeightedPRS(c) ==
    /\ CallAt(c, "prs")
    /\ h' = [h EXCEPT !.calls[c].prs =
                          [t |-> "float",
                           v |-> WeightedSum(h.calls[c].normalized_scores, h.heap.weights)],
                      !.calls[c].pc = "evidence_map"]
    /\ UNCHANGED pipeVars

\* evidence_map = {"tech_momentum": {"sources": tech_momentum.sources, ...}, ...}
BuildEvidenceMap(c) ==
    /\ CallAt(c, "evidence_map")
    /\ h' = [h EXCEPT !.calls[c].evidence_map = [d \in Dims |-> Evidence(Arguments(c)[d])],
                      !.calls[c].pc = "return"]
    /\ UNCHANGED pipeVars

\* return prs, raw_scores, normalized_scores, evidence_map
ReturnPRS(c) ==
    /\ CallAt(c, "return")
    /\ h' = [h EXCEPT !.calls[c] =
                [agent |-> @.agent, k |-> @.k, pc |-> "returned",
                 raw_scores |-> None, normalized_scores |-> None,
                 prs |-> None, evidence_map |-> None,
                 ret |-> [prs |-> @.prs.v, raw_scores |-> @.raw_scores,
                          normalized_scores |-> @.normalized_scores,
                          evidence_map |-> @.evidence_map]]]
    /\ UNCHANGED pipeVars

\* calls of different threads' agents run their statements in any order
NextAggregator ==
    \/ NewScoringAgent
    \/ \E i \in 1..MaxAgents, k \in 1..Len(ScorePool) : CallAggregator(i, k)
    \/ \E c \in 1..MaxCalls :
          \/ CollectRawScores(c)
          \/ NormalizeScores(c)
          \/ WeightedPRS(c)
          \/ BuildEvidenceMap(c)
          \/ ReturnPRS(c)

SpecAggregator == InitAggregator /\ [][NextAggregator]_vars

\* ------------------------------------------------ generate_swot
\* normalized scores at and next to the thresholds 40, 65 and 70
SwotGrid == {4000, 4001, 6499, 6500, 6999, 7000}

\* the keys of a score map, in the order calculate_prs inserts them
KeysOf(normalized) ==
    LET Has(k) == k \in DOMAIN normalized IN SelectSeq(DimOrder, Has)

InitSwot ==
    /\ PipeIdle
    /\ \E K \in SUBSET Dims :
          h \in [fn : {"generate_swot"}, normalized : [K -> SwotGrid], ret : {None}]

CallSwot ==
    /\ h.fn = "generate_swot"
    /\ h.ret = None
    /\ h' = [h EXCEPT !.ret = GenerateSwot(KeysOf(h.normalized), h.normalized)]
    /\ UNCHANGED pipeVars

SpecSwot == InitSwot /\ [][CallSwot]_vars

(***************************************************************************)
(* Properties                                                              *)
(***************************************************************************)
Called == h.ret # None

\* C1: for every combination of six raw scores in [0,5], calculate_prs returns
\* prs = sum over the six dimensions of (raw/5*100) * weight, prs lies in
\* [0,100], and the six weights sum to exactly 1.0.
\* (raw/5*100 is raw*20; a product of two hundredths is in ten-thousandths.)
C1_PrsIsWeightedSum ==
    /\ SCORING_WEIGHTS["tech_momentum"] + SCORING_WEIGHTS["market_gravity"]
         + SCORING_WEIGHTS["white_space"] + SCORING_WEIGHTS["strategic_leverage"]
         + SCORING_WEIGHTS["timing"] + SCORING_WEIGHTS["regulatory_alignment"] = 100
    /\ Called =>
         /\ h.ret.prs * 100 =
                h.scores["tech_momentum"].raw_score * 20 * 20
              + h.scores["market_gravity"].raw_score * 20 * 25
              + h.scores["white_space"].raw_score * 20 * 20
              + h.scores["strategic_leverage"].raw_score * 20 * 15
              + h.scores["timing"].raw_score * 20 * 10
              + h.scores["regulatory_alignment"].raw_score * 20 * 10
         /\ h.ret.prs >= 0
         /\ h.ret.prs <= 10000

\* calculate_prs has returned for a mix of extreme and middle scores
C1_Witness ==
    /\ Called
    /\ h.scores["tech_momentum"].raw_score = 500
    /\ h.scores["market_gravity"].raw_score = 0
    /\ h.scores["timing"].raw_score = 370
    /\ h.ret.prs > 0

IsObject == h.resp.kind = "object"

ValidationErrorRaised == h.ret = [ok |-> FALSE, exc |-> "ValidationError"]

\* field values of the inputs, told apart without the validator's own operators
ScoreOutside == {JNum(-10), JNum(510)}
ScoreInside == {JNum(0), JNum(250), JNum(500), JStr("3.5")}
NotesShort == {JStr(""), JStr("ok"), JStr("abcd"), JStr("  abcd  ")}
NotesLong == {JStr("abcde"), JStr(" abcde ")}
SourcesClean == {JList(<<JStr("a")>>), JList(<<JStr(" a ")>>)}
SourcesNone ==
    {JMissing, JStr("web"), JList(<<>>), JList(<<JStr("")>>), JList(<<JStr("  ")>>),
     JList(<<JNum(7)>>)}
SourcesMixed ==
    {JList(<<JStr("a"), JStr("")>>), JList(<<JStr("  "), JStr("a"), JStr("b")>>),
     JList(<<JNum(7), JStr("b")>>)}

\* the confidence the field carries, when it carries a number
ConfidenceBelowMin ==
    \/ h.resp.confidence.t = "num" /\ h.resp.confidence.n < h.min_confidence
    \/ h.resp.confidence = JStr("0.1")

\* C6: validateScore raises ValidationError, and returns no DimensionScore, for
\* every input whose aggregate_score is outside [0,5], whose sources list is
\* empty, whose notes are shorter than 5 characters after trimming, or whose
\* confidence is present and strictly below minConfidence; a confidence equal
\* to minConfidence is accepted.
C6_GuardrailRejects ==
    (Called /\ IsObject) =>
        /\ h.resp.aggregate_score \in ScoreOutside => ValidationErrorRaised
        /\ h.resp.sources = JList(<<>>) => ValidationErrorRaised
        /\ h.resp.notes \in NotesShort => ValidationErrorRaised
        /\ ConfidenceBelowMin => ValidationErrorRaised
        /\ ( /\ h.resp.confidence = JNum(h.min_confidence)
             /\ h.resp.aggregate_score \in ScoreInside
             /\ h.resp.sources \in SourcesClean
             /\ h.resp.notes \in NotesLong )
           => h.ret.ok /\ h.ret.v.confidence = h.min_confidence

\* a response valid but for a confidence of 0.29 under a minimum of 0.3 was rejected
C6_Witness ==
    /\ Called
    /\ h.resp = Doc(JNum(250), JList(<<JStr("a")>>), JStr("abcde"), JNum(29))
    /\ h.min_confidence = 30
    /\ ValidationErrorRaised

\* C7: validateScore fails with ValidationError when the parsed response has no
\* aggregate_score field.
C7_MissingScoreRejected ==
    (Called /\ IsObject /\ h.resp.aggregate_score = JMissing) => ValidationErrorRaised

\* C8 as stated: validateScore fails with ValidationError whenever sources is not
\* a list consisting only of non-empty strings, a mixed list included.
C8_MixedSourcesRejected ==
    (Called /\ IsObject /\ h.resp.sources \in SourcesNone \cup SourcesMixed)
        => ValidationErrorRaised

\* what the mixed lists keep: their non-blank strings, trimmed, in order
KeptSources(src) ==
    CASE src = JList(<<JStr("a"), JStr("")>>) -> <<"a">>
      [] src = JList(<<JStr("  "), JStr("a"), JStr("b")>>) -> <<"a", "b">>
      [] src = JList(<<JNum(7), JStr("b")>>) -> <<"b">>
      [] src = JList(<<JStr("a")>>) -> <<"a">>
      [] src = JList(<<JStr(" a ")>>) -> <<"a">>

\* C8 amended: validateScore fails with ValidationError when sources is absent,
\* not a list, an empty list, or a list holding no non-blank string; a list that
\* mixes at least one non-blank string with empty, whitespace-only or non-string
\* entries is accepted (the other fields being valid), and the DimensionScore's
\* sources are its non-blank strings, trimmed, in order.
C8_SourcesFiltered ==
    (Called /\ IsObject) =>
        /\ h.resp.sources \in SourcesNone => ValidationErrorRaised
        /\ ( /\ h.resp.sources \in SourcesMixed \cup SourcesClean
             /\ h.resp.aggregate_score \in ScoreInside
             /\ h.resp.notes \in NotesLong
             /\ h.resp.confidence \in {JMissing, JNum(50), JNum(100)} )
           => h.ret.ok /\ h.ret.v.sources = KeptSources(h.resp.sources)

\* a list of one good and one empty source was accepted with the empty one dropped
C8_Witness ==
    /\ Called
    /\ IsObject
    /\ h.resp.sources = JList(<<JStr("a"), JStr("")>>)
    /\ h.ret.ok
    /\ h.ret.v.sources = <<"a">>

\* the sum of the first i confidences of the batch
PrefixConfidence[i \in 0..Len(h.scores)] ==
    IF i = 0 THEN 0 ELSE PrefixConfidence[i - 1] + h.scores[i].confidence

TooFew == Len(h.scores) < h.required

\* the mean of the confidences is below 0.3 (the mean of no score is taken as 0)
MeanConfidenceBelow ==
    PrefixConfidence[Len(h.scores)] < 30 * Len(h.scores) \/ Len(h.scores) = 0

SomeOverConfident ==
    \E i \in 1..Len(h.scores) :
        h.scores[i].normalized_score > 9500 /\ h.scores[i].confidence < 60

\* C10: validateBatch never raises for any list of DimensionScores (the empty
\* list included) and returns ok=true exactly when none of these holds: fewer
\* than requiredCount scores were supplied; the mean confidence is below 0.3;
\* some score has normalized_score > 95 and confidence < 0.6.  Six scores all
\* with confidence 0.1 give ok=false with an issue about average confidence.
C10_BatchVerdict ==
    Called =>
        /\ h.ret.is_valid \in BOOLEAN
        /\ h.ret.is_valid <=> ~(TooFew \/ MeanConfidenceBelow \/ SomeOverConfident)
        /\ h.ret.is_valid <=> h.ret.issues = <<>>
        /\ (\E i \in 1..Len(h.ret.issues) : h.ret.issues[i].issue = "too_few_dimensions")
             <=> TooFew
        /\ (\E i \in 1..Len(h.ret.issues) : h.ret.issues[i].issue = "average_confidence")
             <=> MeanConfidenceBelow
        /\ (\E i \in 1..Len(h.ret.issues) :
                h.ret.issues[i].issue = "high_score_low_confidence")
             <=> SomeOverConfident

\* six scores, all with confidence 0.1, were flagged for their average confidence
C10_Witness ==
    /\ Called
    /\ Len(h.scores) = 6
    /\ h.required = 6
    /\ \A i \in 1..6 : h.scores[i].confidence = 10
    /\ ~h.ret.is_valid
    /\ h.ret.issues = <<[issue |-> "average_confidence", agent |-> ""]>>

\* ----------------------------------------------------------------- evaluate
InLog(e) == \E i \in 1..Len(log) : log[i] = e

AgentStarted(a) == tasks[a].state \in {"running", "done"} \/ InLog("call:" \o a)

\* all six agents have returned a DimensionScore
AllResultsIn == \A a \in Agents : tasks[a].state = "done" /\ tasks[a].result.ok

\* batch validation, the Aggregator, the Reviewer or the Synthesizer has begun
DownstreamBegun ==
    \/ batch # None \/ scored # None \/ reviewed # None \/ swot # None
    \/ pc \in {"score", "review", "reviewing", "swot", "assemble", "done"}
    \/ \E e \in {"stage:Validate", "stage:Score", "stage:Review",
                  "call:ReviewerAgent", "stage:Synthesize", "stage:Assemble"} : InLog(e)

\* C2: in every run of evaluate, no Evidence Agent starts before Triage has
\* completed, and batch validation, the Aggregator, the Reviewer and the
\* Synthesizer never start before all six Evidence Agent results
\* (post-guardrail) are available.
C2_StagesInOrder ==
    /\ (\E a \in Agents : AgentStarted(a)) => (triaged # None /\ pc \notin {"start", "triage"})
    /\ DownstreamBegun =>
          /\ AllResultsIn
          /\ signals = [i \in 1..6 |-> tasks[AgentOrder[i]].result.v]

\* the Synthesizer has run on the six results, one of them a fallback
C2_Witness ==
    /\ swot # None
    /\ AllResultsIn
    /\ tasks["MarketSignalAgent"].resp = BadJson

\* C3: at the fan-out point the orchestrator stays suspended until all six
\* Evidence Agents have completed: when one agent fails, the orchestrator does
\* not leave the join (and does not go to Failed) before the other five have
\* finished.
C3_JoinWaitsForAll ==
    (outer # None /\ pc # "join") => \A a \in Agents : tasks[a].state = "done"

\* the first agent failed, the last one succeeded, and evaluate has failed
C3_Witness ==
    /\ pc = "failed"
    /\ outer # None
    /\ tasks["TechnologySignalAgent"].state = "done"
    /\ ~tasks["TechnologySignalAgent"].result.ok
    /\ tasks["TimingAgent"].state = "done"
    /\ tasks["TimingAgent"].result.ok

\* C4: if Triage fails (the call raises, or its response cannot be parsed into
\* a CanonicalRecord), evaluate raises to the caller, no Evidence Agent,
\* Reviewer or Synthesizer is ever invoked for that evaluation, and no
\* EvaluationResult is produced.
C4_TriageFailureIsFatal ==
    /\ (triaged = None /\ pc \notin {"start", "triage"}) => (pc = "failed" /\ raised # None)
    /\ triaged = None =>
          /\ \A a \in Agents : tasks[a].state = "none" /\ ~InLog("call:" \o a)
          /\ ~InLog("call:ReviewerAgent")
          /\ ~InLog("stage:Synthesize")
          /\ outer = None /\ reviewed = None /\ swot = None /\ output = None

\* triage got an unparseable response and evaluate raised
C4_Witness ==
    /\ pc = "failed"
    /\ triaged = None
    /\ raised = [t |-> "exception", exc |-> "JSONDecodeError"]

\* the fallback DimensionScore, spelled out
FallbackScore(a) ==
    [raw_score |-> 250, normalized_score |-> 5000, sources |-> <<"fallback_default">>,
     agent |-> a, notes |-> "Validation error occurred; using default score",
     confidence |-> 30]

\* validateScore raised ValidationError on the response agent a got
ValidationFailed(a) ==
    /\ tasks[a].state = "done"
    /\ tasks[a].resp.kind # "api_error"
    /\ ValidateDimensionScore(tasks[a].resp, a, 30) = Raise("ValidationError")

\* C5: whenever validateScore raises ValidationError inside one of the two
\* guardrailed agents, malformed JSON included, that agent returns exactly the
\* fallback DimensionScore (raw 2.5, normalized 50, sources ["fallback_default"],
\* the fixed notes, confidence 0.3), and the evaluation continues to the later
\* stages instead of failing: a failed join carries the exception of some other
\* agent, and with six results in the join does not fail.
C5_FallbackOnValidationError ==
    /\ \A a \in Guardrailed :
          ValidationFailed(a) => tasks[a].result = Return(FallbackScore(a))
    /\ (outer # None /\ outer.state = "exception") =>
          \E a \in Agents :
              /\ tasks[a].state = "done"
              /\ ~tasks[a].result.ok
              /\ outer.exc = tasks[a].result.exc
              /\ ~(a \in Guardrailed /\ ValidationFailed(a))
    /\ (AllResultsIn /\ pc = "failed") => batch # None

\* both guardrailed agents fell back (malformed JSON, low confidence) and the
\* evaluation returned a result
C5_Witness ==
    /\ pc = "done"
    /\ output # None
    /\ tasks["TechnologySignalAgent"].resp = BadJson
    /\ tasks["TechnologySignalAgent"].result = Return(FallbackScore("TechnologySignalAgent"))
    /\ tasks["MarketSignalAgent"].resp.kind = "object"
    /\ tasks["MarketSignalAgent"].result = Return(FallbackScore("MarketSignalAgent"))

\* normalized_score = raw_score / 5 * 100
Consistent(ds) == ds.normalized_score * 5 = ds.raw_score * 100

\* C9: every DimensionScore in any reachable pipeline state, whether returned
\* by validateScore, built directly by a non-guardrailed agent, or substituted
\* as the fallback, satisfies normalized_score = raw_score/5*100, and the final
\* result satisfies normalized_scores[d] = dimension_scores[d]/5*100 for each
\* of the six dimensions.
C9_NormalizedFromRaw ==
    /\ \A a \in Agents :
          (tasks[a].state = "done" /\ tasks[a].result.ok) => Consistent(tasks[a].result.v)
    /\ signals # None => \A i \in 1..Len(signals) : Consistent(signals[i])
    /\ scored # None =>
          \A d \in Dims : scored.normalized_scores[d] * 5 = scored.raw_scores[d] * 100
    /\ output # None =>
          /\ DOMAIN output.normalized_scores = Dims
          /\ DOMAIN output.dimension_scores = Dims
          /\ \A d \in Dims :
                output.normalized_scores[d] * 5 = output.dimension_scores[d] * 100

\* a result was returned from a validated, a fallback and four direct scores
C9_Witness ==
    /\ output # None
    /\ tasks["TechnologySignalAgent"].resp.kind = "object"
    /\ tasks["TechnologySignalAgent"].result.v.raw_score = 350
    /\ tasks["MarketSignalAgent"].result = Return(FallbackScore("MarketSignalAgent"))
    /\ output.normalized_scores["tech_momentum"] = 7000
    /\ output.normalized_scores["market_gravity"] = 5000
    /\ output.normalized_scores["timing"] = 10000

\* the text of a batch issue, as a flag would carry it
IssueText(issue) == issue.issue \o ":" \o issue.agent

\* C11: batch-level validation issues never abort the evaluation, and every
\* issue validateBatch reported for an evaluation appears in the flags list of
\* that evaluation's final result.
C11_BatchIssuesInFlags ==
    /\ (batch # None /\ pc = "failed") => scored # None
    /\ output # None =>
          \A i \in 1..Len(batch.issues) :
              \E j \in 1..Len(output.flags) : output.flags[j] = IssueText(batch.issues[i])

\* the service call of agent a failed, or its response cannot be parsed, or it
\* carries a score the DimensionScore model rejects
DirectFailure(a) ==
    /\ tasks[a].state = "done"
    /\ \/ tasks[a].resp.kind \in {"api_error", "bad_json"}
       \/ tasks[a].resp.kind = "object" /\ tasks[a].resp.aggregate_score = JNum(700)

\* C12: a failure in any of the four non-guardrailed Evidence Agents (a failed
\* call, an unparseable response, or values the DimensionScore model rejects)
\* is not replaced by a fallback: it propagates out of the join and the
\* evaluation ends in failure with no result.
C12_DirectFailurePropagates ==
    \A a \in Agents \ Guardrailed :
        DirectFailure(a) =>
            /\ ~tasks[a].result.ok
            /\ pc \in {"join", "failed"}
            /\ pc = "failed" => (raised # None /\ outer.state = "exception")
            /\ signals = None /\ batch = None /\ scored = None
            /\ reviewed = None /\ swot = None /\ output = None

\* the product-landscape agent got a score of 7; the two guardrailed agents
\* returned scores; evaluate raised the model's rejection
C12_Witness ==
    /\ pc = "failed"
    /\ DirectFailure("ProductLandscapeAgent")
    /\ tasks["ProductLandscapeAgent"].resp.kind = "object"
    /\ tasks["TechnologySignalAgent"].result.ok
    /\ tasks["MarketSignalAgent"].result.ok
    /\ raised = [t |-> "exception", exc |-> "PydanticValidationError"]

\* an EvaluationResult with every field populated
Complete(o) ==
    /\ DOMAIN o = {"idea_id", "dimension_scores", "normalized_scores",
                   "patent_relevance_score", "swot", "confidence", "evidence_map",
                   "flags", "usage_summary"}
    /\ o.idea_id = IdeaId
    /\ DOMAIN o.dimension_scores = Dims
    /\ DOMAIN o.normalized_scores = Dims
    /\ o.patent_relevance_score \in 0..10000
    /\ DOMAIN o.swot = {"strengths", "weaknesses", "opportunities", "threats"}
    /\ o.confidence \in {"low", "medium", "high"}
    /\ DOMAIN o.evidence_map = Dims
    /\ DOMAIN o.flags = 1..Len(o.flags)

\* C13: every call to evaluate ends in exactly one of two outcomes: it returns
\* a complete EvaluationResult (idea_id, dimension_scores, normalized_scores,
\* relevance score, swot, confidence, evidence_map and flags populated), or it
\* raises an error; a result built from only some stages is never returned.
C13_ResultOrError ==
    /\ pc \notin {"done", "failed"} => (output = None /\ raised = None /\ ENABLED Next)
    /\ pc = "failed" => (output = None /\ raised # None)
    /\ pc = "done" =>
          /\ raised = None
          /\ output # None
          /\ Complete(output)
          /\ AllResultsIn
          /\ batch # None /\ scored # None /\ reviewed # None /\ swot # None
          /\ \A e \in {"stage:Triage", "stage:Signals", "stage:Validate", "stage:Score",
                        "stage:Review", "stage:Synthesize", "stage:Assemble"} : InLog(e)

\* the Reviewer's response could not be parsed and evaluate raised, every
\* earlier stage having run
C13_Witness ==
    /\ pc = "failed"
    /\ scored # None
    /\ reviewed = None
    /\ raised = [t |-> "exception", exc |-> "JSONDecodeError"]
    /\ output = None

\* what the Aggregator returns for the six results of the join
Aggregated ==
    CalculatePRS(signals[1], signals[2], signals[3], signals[5], signals[6], signals[4])

\* C14: the Reviewer changes no score: in every completed evaluation the
\* dimension_scores, normalized_scores and relevance score of the final result
\* are exactly the values the Aggregator returned before the Reviewer ran,
\* whatever confidence label and flags the Reviewer produces.
C14_ReviewerChangesNoScore ==
    /\ scored # None =>
          /\ scored = Aggregated
          /\ signals = [i \in 1..6 |-> tasks[AgentOrder[i]].result.v]
    /\ output # None =>
          /\ output.dimension_scores = scored.raw_scores
          /\ output.normalized_scores = scored.normalized_scores
          /\ output.patent_relevance_score = scored.prs
          /\ output.confidence = reviewed.confidence.s

\* an evaluation completed after the Reviewer said "low" and raised a flag
C14_Witness ==
    /\ pc = "done"
    /\ output.confidence = "low"
    /\ output.flags = <<"vague sources">>
    /\ output.patent_relevance_score = scored.prs
    /\ output.patent_relevance_score > 0

\* ------------------------------------------------------------ generate_swot
\* how many entries of the list carry the label
CountLabel(entries, label) ==
    Cardinality({i \in 1..Len(entries) : entries[i].label = label})

\* C15: for every normalized score map for which synthesize returns, strengths
\* holds exactly one entry for each dimension with normalized score >= 70 and no
\* others, and weaknesses exactly one entry for each dimension with normalized
\* score <= 40 and no others (70 and 40 included).
C15_StrengthsAndWeaknesses ==
    (Called /\ h.ret.ok) =>
        /\ \A d \in DOMAIN h.normalized :
              /\ CountLabel(h.ret.v.strengths, FormatDimension(d))
                   = IF h.normalized[d] >= 7000 THEN 1 ELSE 0
              /\ CountLabel(h.ret.v.weaknesses, FormatDimension(d))
                   = IF h.normalized[d] <= 4000 THEN 1 ELSE 0
        /\ Len(h.ret.v.strengths)
             = Cardinality({d \in DOMAIN h.normalized : h.normalized[d] >= 7000})
        /\ Len(h.ret.v.weaknesses)
             = Cardinality({d \in DOMAIN h.normalized : h.normalized[d] <= 4000})

\* a map with one score of exactly 70, one of exactly 40 and one of 40.01
C15_Witness ==
    /\ Called
    /\ DOMAIN h.normalized = Dims
    /\ h.normalized["timing"] = 7000
    /\ h.normalized["white_space"] = 4000
    /\ h.normalized["tech_momentum"] = 4001
    /\ h.ret.ok
    /\ Len(h.ret.v.strengths) = 1
    /\ Len(h.ret.v.weaknesses) = 1

Present(key) == key \in DOMAIN h.normalized

Emitted(entries, label) == \E i \in 1..Len(entries) : entries[i].label = label

\* C16: synthesize emits the 'Strong market potential' opportunity iff
\* market_gravity >= 65 and the 'Favorable timing' opportunity iff timing >= 65,
\* independently; the 'Regulatory friction' threat iff regulatory_alignment <= 40
\* and the 'Crowded market' threat iff white_space <= 40, independently; a key
\* absent from the input map never triggers an opportunity or a threat.
C16_OpportunitiesAndThreats ==
    (Called /\ h.ret.ok) =>
        /\ Emitted(h.ret.v.opportunities, "Strong market potential")
             <=> (Present("market_gravity") /\ h.normalized["market_gravity"] >= 6500)
        /\ Emitted(h.ret.v.opportunities, "Favorable timing")
             <=> (Present("timing") /\ h.normalized["timing"] >= 6500)
        /\ Emitted(h.ret.v.threats, "Regulatory friction")
             <=> (Present("regulatory_alignment")
                  /\ h.normalized["regulatory_alignment"] <= 4000)
        /\ Emitted(h.ret.v.threats, "Crowded market")
             <=> (Present("white_space") /\ h.normalized["white_space"] <= 4000)
        /\ Len(h.ret.v.opportunities) <= 2
        /\ Len(h.ret.v.threats) <= 2

\* timing at exactly 65 gave its opportunity while market_gravity, absent, gave
\* none, and regulatory_alignment, absent, gave no threat
C16_Witness ==
    /\ Called
    /\ h.ret.ok
    /\ ~Present("market_gravity")
    /\ ~Present("regulatory_alignment")
    /\ Present("timing") /\ h.normalized["timing"] = 6500
    /\ Present("white_space") /\ h.normalized["white_space"] = 4000
    /\ h.ret.v.opportunities = <<[label |-> "Favorable timing", score |-> 650]>>
    /\ h.ret.v.threats = <<[label |-> "Crowded market", score |-> 400]>>

\* at least one of the four lists has an entry
SomeCategory(sw) ==
    \/ Len(sw.strengths) > 0 \/ Len(sw.weaknesses) > 0
    \/ Len(sw.opportunities) > 0 \/ Len(sw.threats) > 0

\* the six scores of the evaluation all lie strictly between 40 and 65
AllScoresMiddling ==
    \A d \in Dims : scored.normalized_scores[d] > 4000 /\ scored.normalized_scores[d] < 6500

\* C17: no SWOT record with all four lists empty ever exists: constructing one
\* is rejected, so the swot of every returned EvaluationResult has at least
\* one non-empty category.
C17_SwotNeverEmpty ==
    /\ swot # None => SomeCategory(swot)
    /\ output # None => SomeCategory(output.swot)
    /\ (scored # None /\ AllScoresMiddling) => (swot = None /\ output = None)
    /\ (scored # None /\ AllScoresMiddling /\ InLog("stage:Synthesize")) =>
          (pc = "failed" /\ raised = [t |-> "exception", exc |-> "PydanticValidationError"])

\* six scores of 50 left the Synthesizer nothing to list, and evaluate raised
C17_Witness ==
    /\ pc = "failed"
    /\ reviewed # None
    /\ InLog("stage:Synthesize")
    /\ AllScoresMiddling
    /\ swot = None
    /\ raised = [t |-> "exception", exc |-> "PydanticValidationError"]

\* ------------------------------------------------------------ ScoringAgent
\* C18: the Aggregator has no hidden state: calling calculate_prs twice, on the
\* same or on different ScoringAgent instances and with any other calls in
\* between, with the same six DimensionScores yields identical prs, raw score
\* map, normalized score map and evidence map, and leaves the six input
\* DimensionScores and the ScoringWeights unchanged.
C18_AggregatorStateless ==
    /\ h.heap.weights = SCORING_WEIGHTS
    /\ h.heap.pool = ScorePool
    /\ \A m, n \in DOMAIN h.calls :
          (/\ h.calls[m].pc = "returned"
           /\ h.calls[n].pc = "returned"
           /\ ScorePool[h.calls[m].k] = ScorePool[h.calls[n].k])
              => h.calls[m].ret = h.calls[n].ret

\* two agents were called with equal scores, a third call was made with other
\* scores, and all three have returned
C18_Witness ==
    /\ Len(h.calls) = 3
    /\ \A c \in 1..3 : h.calls[c].pc = "returned"
    /\ h.calls[1].agent = 1 /\ h.calls[1].k = 1
    /\ h.calls[2].k = 2
    /\ h.calls[3].agent = 2 /\ h.calls[3].k = 3
    /\ h.calls[1].ret = h.calls[3].ret
    /\ h.calls[1].ret # h.calls[2].ret
    /\ h.calls[1].ret.prs = 7400

\* ------------------------------------------------------------ evidence map
\* the agent designated for each dimension
AgentFor ==
    [tech_momentum |-> "TechnologySignalAgent",
     market_gravity |-> "MarketSignalAgent",
     white_space |-> "ProductLandscapeAgent",
     regulatory_alignment |-> "RegulatorySignalAgent",
     strategic_leverage |-> "StrategicLeverageAgent",
     timing |-> "TimingAgent"]

\* the map holds, for each of the six dimensions, the sources, agent and notes
\* of the score its designated agent returned
EvidenceFromDesignated(evidence) ==
    /\ DOMAIN evidence = Dims
    /\ \A d \in Dims :
          LET ds == tasks[AgentFor[d]].result.v
          IN  /\ evidence[d] = [sources |-> ds.sources, agent |-> ds.agent,
                                notes |-> ds.notes]
              /\ evidence[d].agent = AgentFor[d]

\* C19: in every completed evaluation the evidence map has exactly the six
\* dimension keys, and for each dimension its entry holds the sources, agent and
\* notes of the DimensionScore produced by the agent designated for it; no
\* dimension receives another agent's score.
C19_EvidenceFromDesignatedAgent ==
    /\ scored # None =>
          /\ EvidenceFromDesignated(scored.evidence_map)
          /\ \A d \in Dims :
                scored.raw_scores[d] = tasks[AgentFor[d]].result.v.raw_score
    /\ output # None =>
          /\ EvidenceFromDesignated(output.evidence_map)
          /\ \A d \in Dims :
                output.dimension_scores[d] = tasks[AgentFor[d]].result.v.raw_score

\* an evaluation completed whose regulatory and strategic agents, neighbours in
\* the join, returned different scores and sources
C19_Witness ==
    /\ pc = "done"
    /\ output.dimension_scores["regulatory_alignment"] = 250
    /\ output.dimension_scores["strategic_leverage"] = 500
    /\ output.evidence_map["regulatory_alignment"].sources = <<"LLM analysis">>
    /\ output.evidence_map["strategic_leverage"].agent = "StrategicLeverageAgent"
    /\ output.evidence_map["tech_momentum"].sources = <<"fallback_default">>

\* ------------------------------------------------------------ usage summary
UsageKeys == {"total_tokens", "estimated_cost", "duration_seconds", "agents_executed"}

\* C20 as stated: every EvaluationResult returned by evaluate, hooks enabled or
\* disabled, contains a usage_summary with the four keys total_tokens,
\* estimated_cost, duration_seconds and agents_executed.
C20_UsageSummaryAlways ==
    output # None => DOMAIN output.usage_summary = UsageKeys

\* C20 amended: an EvaluationResult returned by evaluate of a pipeline that has
\* a hooks object contains a usage_summary with exactly the four keys
\* total_tokens, estimated_cost, duration_seconds and agents_executed
\* (agents_executed being 6); when the pipeline has no hooks object
\* (self.hooks is None) its usage_summary is the empty map.
C20_UsageSummaryWithHooks ==
    output # None =>
        IF hooksOn
        THEN /\ DOMAIN output.usage_summary = UsageKeys
             /\ output.usage_summary.agents_executed = 6
        ELSE DOMAIN output.usage_summary = {}

\* an evaluation without hooks returned a result with an empty usage_summary
C20_Witness ==
    /\ pc = "done"
    /\ ~hooksOn
    /\ output # None
    /\ DOMAIN output.usage_summary = {}

\* ------------------------------------------------------------------- hooks
\* the fields of a result other than its usage_summary
Verdict(o) ==
    [dimension_scores |-> o.dimension_scores, normalized_scores |-> o.normalized_scores,
     patent_relevance_score |-> o.patent_relevance_score, swot |-> o.swot,
     confidence |-> o.confidence, evidence_map |-> o.evidence_map, flags |-> o.flags]

\* the stage entries of the log, in order
StagesOf(l) ==
    LET IsStage(e) == e \in {"stage:Triage", "stage:Signals", "stage:Validate",
                             "stage:Score", "stage:Review", "stage:Synthesize",
                             "stage:Assemble"}
    IN  SelectSeq(l, IsStage)

\* the exception a pipeline without hooks raises in the failed state at hand:
\* the one of the stage the service responses stopped
FailureWithoutHooks ==
    IF triaged = None THEN raised.exc
    ELSE IF outer.state = "exception" THEN outer.exc
    ELSE IF reviewed = None THEN raised.exc
    ELSE IF swot = None THEN GenerateSwot(DimOrder, scored.normalized_scores).exc
    ELSE AssembleOutcome(FALSE).exc

\* the stages a pipeline without hooks has gone through in the failed state
StagesWithoutHooks ==
    IF triaged = None THEN <<"stage:Triage">>
    ELSE IF outer.state = "exception" THEN <<"stage:Triage", "stage:Signals">>
    ELSE IF reviewed = None
    THEN <<"stage:Triage", "stage:Signals", "stage:Validate", "stage:Score", "stage:Review">>
    ELSE IF swot = None
    THEN <<"stage:Triage", "stage:Signals", "stage:Validate", "stage:Score", "stage:Review",
           "stage:Synthesize">>
    ELSE <<"stage:Triage", "stage:Signals", "stage:Validate", "stage:Score", "stage:Review",
           "stage:Synthesize", "stage:Assemble">>

\* C21: hooks do not alter control flow: for the same input and the same
\* service responses, a pipeline with hooks and one without go through the same
\* stages, succeed or fail identically, and return results that agree on
\* dimension_scores, normalized_scores, relevance score, swot, confidence,
\* evidence_map and flags.  (What a run does is what the run without hooks
\* does on the responses it got.)
C21_HooksDoNotAlterFlow ==
    /\ pc = "assemble" =>
          /\ AssembleOutcome(TRUE).ok = AssembleOutcome(FALSE).ok
          /\ AssembleOutcome(hooksOn).ok =>
                Verdict(AssembleOutcome(hooksOn).v) = Verdict(AssembleOutcome(FALSE).v)
    /\ pc = "done" =>
          /\ AssembleOutcome(FALSE).ok
          /\ Verdict(output) = Verdict(AssembleOutcome(FALSE).v)
    /\ pc = "failed" =>
          /\ raised.exc = FailureWithoutHooks
          /\ StagesOf(log) = StagesWithoutHooks
          /\ (triaged # None /\ outer.state # "exception" /\ reviewed # None /\ swot # None)
                => ~AssembleOutcome(FALSE).ok
          /\ (triaged # None /\ outer.state # "exception" /\ reviewed # None /\ swot = None)
                => ~GenerateSwot(DimOrder, scored.normalized_scores).ok

\* an evaluation with hooks, whose hooks recorded batch and reviewer flags,
\* returned its result
C21_Witness ==
    /\ pc = "done"
    /\ hooksOn
    /\ Len(hooks.all_flags) >= 2
    /\ output.flags = <<"vague sources">>
    /\ Verdict(output) = Verdict(AssembleOutcome(FALSE).v)

\* ------------------------------------------------------------------ triage
\* the response is a JSON object that leaves out one of the four fields
OmitsField ==
    /\ h.resp.kind = "object"
    /\ \/ h.resp.core_concept = JMissing
       \/ h.resp.technical_keywords = JMissing
       \/ h.resp.application_domains = JMissing
       \/ h.resp.analysis_depth = JMissing

\* C22: normalize fails, and produces no CanonicalRecord, whenever the response
\* is not well-formed structured data matching the CanonicalRecord shape,
\* including a parseable response that omits core_concept, technical_keywords,
\* application_domains or analysis_depth.
C22_MalformedTriageRejected ==
    (Called /\ (h.resp.kind # "object" \/ OmitsField)) => ~h.ret.ok

\* ------------------------------------------------------------------ stages
\* the stages and the service calls of a whole evaluation, in order
FullLog ==
    <<"stage:Triage", "call:TriageOrchestrator", "stage:Signals">>
    \o [i \in 1..Len(AgentOrder) |-> "call:" \o AgentOrder[i]]
    \o <<"stage:Validate", "stage:Score", "stage:Review", "call:ReviewerAgent",
         "stage:Synthesize", "stage:Assemble">>

CallsOf(l) ==
    LET IsCall(e) == e \in {"call:TriageOrchestrator", "call:ReviewerAgent"}
                           \cup {"call:" \o a : a \in Agents}
    IN  SelectSeq(l, IsCall)

\* C23: every evaluation that returns a result has passed through the stages
\* Triage, Signals, Validate, Score, Review, Synthesize, Assemble in that
\* order, each exactly once, and has made exactly eight external calls (one by
\* Triage, one by each of the six Evidence Agents, one by the Reviewer); no
\* call is retried and no stage is skipped or repeated.
C23_StagesOnceInOrder ==
    /\ \A i, j \in 1..Len(log) : log[i] = log[j] => i = j
    /\ \E n \in 0..Len(FullLog) : log = SubSeq(FullLog, 1, n)
    /\ output # None =>
          /\ log = FullLog
          /\ Len(CallsOf(log)) = 8
          /\ Len(StagesOf(log)) = 7

\* an evaluation returned its result
C23_Witness ==
    /\ pc = "done"
    /\ output # None
    /\ Len(CallsOf(log)) = 8
    /\ StagesOf(log) = <<"stage:Triage", "stage:Signals", "stage:Validate", "stage:Score",
                         "stage:Review", "stage:Synthesize", "stage:Assemble">>

\* ---------------------------------------------------------------- fallback
\* agent a returned the fallback score
FellBack(a) ==
    /\ tasks[a].state = "done"
    /\ tasks[a].result = Return(FallbackScore(a))

\* a validation error of agent a is among the hooks' flags
InHooksFlags(a) ==
    \E i \in 1..Len(hooks.all_flags) :
        hooks.all_flags[i].flag = "VALIDATION_ERROR" /\ hooks.all_flags[i].agent = a

\* the result's flags name agent a's fallback
InResultFlags(a) ==
    /\ output # None
    /\ \E j \in 1..Len(output.flags) : output.flags[j] = "VALIDATION_ERROR:" \o a

\* C24: whenever a guardrailed Evidence Agent substitutes the fallback
\* DimensionScore, the failure is recorded as a flag-worthy event: a
\* validationError notification for that agent is emitted to the hooks, or a
\* corresponding entry is recorded in the hooks' flag list or the result's flags.
C24_FallbackIsFlagged ==
    \A a \in Guardrailed :
        (FellBack(a) /\ pc \in {"done", "failed"}) => (InHooksFlags(a) \/ InResultFlags(a))

\* ------------------------------------------------------ non-guardrailed agents
\* agent a, one of the four non-guardrailed agents, returned a DimensionScore
DirectReturned(a) ==
    /\ a \in Agents \ Guardrailed
    /\ tasks[a].state = "done"
    /\ tasks[a].result.ok

\* C25: every DimensionScore returned by one of the four non-guardrailed agents
\* has confidence exactly 0.5, whatever the response contains (a confidence
\* field of its own included), and a response that omits aggregate_score
\* yields raw_score 2.5.
C25_DirectConfidenceIsDefault ==
    \A a \in Agents :
        DirectReturned(a) =>
            /\ tasks[a].result.v.confidence = 50
            /\ tasks[a].resp.aggregate_score = JMissing => tasks[a].result.v.raw_score = 250

C25_Witness ==
    \E a \in Agents :
        /\ DirectReturned(a)
        /\ tasks[a].resp.confidence = JNum(90)
        /\ tasks[a].resp.aggregate_score = JMissing
        /\ tasks[a].result.v.confidence = 50
        /\ tasks[a].result.v.raw_score = 250

\* ------------------------------------------------------------ agent metrics
\* the agents whose start the hooks were told of
Counted == DOMAIN hooks.metrics

\* C26: the pipeline emits agentStarted for all six Evidence Agents before any
\* of them runs and never emits agentEnded for any agent, so in every completed
\* evaluation with hooks enabled usage_summary reports agents_executed = 6,
\* total_tokens = 0 and estimated_cost = 0 whatever the calls consumed; Triage
\* and the Reviewer are never counted.
C26_StartedNeverEnded ==
    hooksOn =>
        /\ (\E a \in Agents : AgentStarted(a)) => Counted = Agents
        /\ Counted \subseteq Agents
        /\ \A a \in Counted : hooks.metrics[a] = AgentMetrics
        /\ hooks.total_tokens = 0 /\ hooks.total_cost = 0
        /\ output # None =>
              /\ output.usage_summary.agents_executed = 6
              /\ output.usage_summary.total_tokens = 0
              /\ output.usage_summary.estimated_cost = 0

\* an evaluation with hooks completed, Triage, six agents and the Reviewer called
C26_Witness ==
    /\ hooksOn
    /\ pc = "done"
    /\ output # None
    /\ InLog("call:TriageOrchestrator") /\ InLog("call:ReviewerAgent")
    /\ Counted = Agents
    /\ output.usage_summary.agents_executed = 6

\* ------------------------------------------------------- batch check in evaluate
BatchIssue(kind) == \E i \in 1..Len(batch.issues) : batch.issues[i].issue = kind

\* C27: within evaluate the batch check never reports the 'fewer dimensions
\* than expected' issue nor the 'average confidence' issue: it always receives
\* exactly six scores, the two guardrailed agents only return confidence >= 0.3
\* and the four others always return 0.5, so the mean confidence is at least
\* 0.3; the only batch issue reachable is the over-confidence heuristic.
C27_OnlyOverConfidenceIssues ==
    batch # None =>
        /\ Len(signals) = 6
        /\ \A i \in 1..6 :
              IF signals[i].agent \in Guardrailed
              THEN signals[i].confidence >= 30
              ELSE signals[i].confidence = 50
        /\ SumConfidence(signals) >= 30 * 6
        /\ ~BatchIssue("too_few_dimensions")
        /\ ~BatchIssue("average_confidence")
        /\ \A i \in 1..Len(batch.issues) :
              /\ batch.issues[i].issue = "high_score_low_confidence"
              /\ batch.issues[i].agent \in Agents

\* the batch check reported an over-confident score, one agent having fallen back
C27_Witness ==
    /\ batch # None
    /\ ~batch.is_valid
    /\ BatchIssue("high_score_low_confidence")
    /\ \E a \in Guardrailed : FellBack(a)

\* ------------------------------------------------------- unremarkable scores
\* all six normalized scores lie strictly between 40 and 70, market_gravity
\* and timing below 65
Unremarkable ==
    /\ \A d \in Dims : scored.normalized_scores[d] > 4000 /\ scored.normalized_scores[d] < 7000
    /\ scored.normalized_scores["market_gravity"] < 6500
    /\ scored.normalized_scores["timing"] < 6500

\* Triage, the six agents, the Aggregator and the Reviewer with its call are done
AllButSynthesizerDone ==
    /\ triaged # None
    /\ AllResultsIn
    /\ batch # None
    /\ scored # None
    /\ reviewed # None
    /\ InLog("call:TriageOrchestrator")
    /\ \A a \in Agents : InLog("call:" \o a)
    /\ InLog("call:ReviewerAgent")

\* C28: if all six normalized scores lie strictly between 40 and 70 and both
\* market_gravity and timing are below 65, the Synthesizer raises instead of
\* returning a SWOT, and the evaluation ends in failure without a result even
\* though Triage, all six agents, the Aggregator and the Reviewer (its call
\* included) have already completed successfully.
C28_UnremarkableScoresFail ==
    (scored # None /\ Unremarkable) =>
        /\ swot = None /\ output = None
        /\ pc \in {"review", "reviewing", "swot", "failed"}
        /\ InLog("stage:Synthesize") =>
              /\ pc = "failed"
              /\ raised = [t |-> "exception", exc |-> "PydanticValidationError"]
              /\ AllButSynthesizerDone

\* the Synthesizer raised on scores one of which lies between 65 and 70
C28_Witness ==
    /\ scored # None
    /\ Unremarkable
    /\ scored.normalized_scores["white_space"] = 6900
    /\ InLog("stage:Synthesize")
    /\ pc = "failed"
    /\ AllButSynthesizerDone
    /\ output = None

\* ---------------------------------------------------------------- web layer
\* C29: in the web layer, in every interleaving of the background evaluation
\* thread with status and result request handlers, a session whose status is
\* 'completed' already has its result stored (and a session whose status is
\* 'failed' already has its error stored), so a result request never answers
\* success with an empty result.
C29_CompletedHasResult ==
    /\ \A id \in DOMAIN h.table :
          /\ SessionOf(id).status = "completed" => SessionOf(id).result # None
          /\ SessionOf(id).status = "failed" => SessionOf(id).error # None
    /\ \A n \in PollIds : PollAt(n, "result", "result") => GetResult(n).body # JNull

\* ------------------------------------------------- failures the guard lets by
\* the exception a guardrailed agent meets that is no ValidationError: the call
\* failed, the JSON is no object, or the confidence is a text float() rejects
OtherException(resp) ==
    CASE resp.kind = "api_error" -> "APIError"
      [] resp.kind = "non_object" -> "AttributeError"
      [] resp.kind = "object" /\ resp.confidence.t = "str"
                              /\ resp.confidence.s \notin NumericText -> "ValueError"
      [] OTHER -> ""

GuardedOtherFailure(a) ==
    /\ a \in Guardrailed
    /\ tasks[a].state = "done"
    /\ OtherException(tasks[a].resp) # ""

\* C30: a guardrailed agent substitutes the fallback only when validateScore
\* raises ValidationError: a failed external call, a response that parses to
\* JSON that is not an object, or a confidence value that is not numeric raise
\* other exceptions that the agent does not catch, that propagate through the
\* join, and that fail the whole evaluation.
C30_FallbackOnlyOnValidationError ==
    \A a \in Guardrailed :
        /\ FellBack(a) => ValidationFailed(a)
        /\ GuardedOtherFailure(a) =>
              /\ tasks[a].result = Raise(OtherException(tasks[a].resp))
              /\ pc \in {"join", "failed"}
              /\ pc = "failed" =>
                    /\ outer.state = "exception"
                    /\ raised = [t |-> "exception", exc |-> outer.exc]
                    /\ \E b \in Agents : ~tasks[b].result.ok /\ tasks[b].result.exc = outer.exc
              /\ signals = None /\ batch = None /\ scored = None
              /\ reviewed = None /\ swot = None /\ output = None

\* the market agent got a confidence of "high" while every other agent returned
\* a score, the technology agent the fallback; evaluate raised the ValueError
C30_Witness ==
    /\ pc = "failed"
    /\ GuardedOtherFailure("MarketSignalAgent")
    /\ tasks["MarketSignalAgent"].resp.kind = "object"
    /\ FellBack("TechnologySignalAgent")
    /\ \A b \in Agents \ Guardrailed : tasks[b].result.ok
    /\ raised = [t |-> "exception", exc |-> "ValueError"]

====
